---- MODULE Spec2Model ----
(***************************************************************************)
(* Model of the AI execution core of AI-Studio.                            *)
(*                                                                         *)
(* Part 1: one agent run of ReActAgent (backend/ai/agents/react.py) driven *)
(* through BaseAgent.run (backend/ai/agents/base.py), with the LLM client  *)
(* (backend/ai/llm.py) as the producer of the streamed response and the    *)
(* tool executor, including an MCP tool whose JSON-RPC request is in       *)
(* flight on an MCPClientConnection (services/mcp/client_manager.py).      *)
(* Specification: Spec.                                                    *)
(*                                                                         *)
(* Part 2: the tool registry and executor (backend/ai/tools/registry.py,   *)
(* executor.py, builtin/commands.py): the permission-filtered listing,     *)
(* execute_tool with the run_command approval flow, and the read-only      *)
(* command classifier.  Specification: SpecTools.                          *)
(*                                                                         *)
(* Part 3: the MCP execution adapter (services/mcp/execution_adapter.py)   *)
(* with its permission bridge, rate limiter and audit log.                 *)
(* Specification: SpecAdapter.                                             *)
(*                                                                         *)
(* Part 4: the MCP connection pool (services/mcp/client_manager.py) used   *)
(* by concurrent tool calls while a server's configuration is updated      *)
(* (api/mcp.py).  Specification: SpecManager.                              *)
(*                                                                         *)
(* Part 5: the provider driver cache of LLMClient (backend/ai/llm.py).     *)
(* Specification: SpecCache.                                               *)
(*                                                                         *)
(* Part 6: the context builder (backend/ai/context/builder.py).            *)
(* Specification: SpecBuilder.                                             *)
(*                                                                         *)
(* Part 7: the context window manager (backend/ai/context/window.py).      *)
(* Specification: SpecWindow.                                              *)
(*                                                                         *)
(* Part 8: tool calls rebuilt from streamed deltas in two arrival orders   *)
(* (backend/ai/agents/react.py).  Specification: SpecDeltas.               *)
(*                                                                         *)
(* Part 9: Studio names of MCP tools                                       *)
(* (backend/services/mcp/tool_adapter.py).                                 *)
(* Specification: SpecNaming.                                              *)
(*                                                                         *)
(* Part 10: the token budget manager (backend/ai/observability/budget.py). *)
(* Specification: SpecBudget.                                              *)
(*                                                                         *)
(* Part 11: the vector index and the background indexer                    *)
(* (backend/ai/rag/index.py, indexer.py).  Specification: SpecIndex.       *)
(*                                                                         *)
(* Part 12: the JSON-RPC requests of one MCP connection                    *)
(* (services/mcp/client_manager.py).  Specification: SpecRpc.              *)
(*                                                                         *)
(* Part 13: tool messages and summaries in the context window              *)
(* (backend/ai/context/window.py, backend/ai/llm.py).                      *)
(* Specification: SpecContext.                                             *)
(*                                                                         *)
(* Part 14: the MCP registry and connection pool across projects           *)
(* (services/mcp/registry.py, client_manager.py, secret_resolver.py,       *)
(* api/mcp.py).  Specification: SpecPool.                                  *)
(***************************************************************************)
EXTENDS Integers, Sequences, FiniteSets, TLC

\* ------------------------------------------------------------------ bounds
\* input.max_tool_rounds of the modelled run (the program default is 15).
max_tool_rounds == 1
\* Total number of LLM stream events the provider produces during one run.
MaxDeltas == 3

\* --------------------------------------------------------- program constants
\* detect_fabrication ignores texts shorter than this many characters.
MinFabLen == 10
\* fabrication_retries < 2 guards the fabrication retry.
MaxFabRetries == 2
\* input.reflection_interval of the modelled run.
reflection_interval == 1

VARIABLES
    pc,                     \* position of the run in BaseAgent.run / ReActAgent.act
    tools,                  \* local `tools` of act (truthy?) after the reasoning-model check
    tool_executor,          \* input.tool_executor is not None
    enable_reflection,      \* input.enable_reflection
    current_messages,       \* messages appended by act to list(input.messages)
    total_tool_rounds,
    seen_tool_calls,
    all_tool_calls,
    fabrication_retries,
    pending_tool_calls,     \* dict idx -> tc, as the sequence of its items in insertion order
    started_tool_calls,
    response_has_content,
    stream_finish_reason,
    response_text_parts,
    usage_data,
    current_tool_choice,
    sorted_tcs,
    tool_results_messages,
    tcIndex,                \* position of the `for _, tc in sorted_tcs` loop
    events,                 \* AgentEvents yielded so far, in order
    llmCalls,               \* every client.stream call: its tool_choice, the number of
                            \* events yielded before it, and how the stream ended
    execLog,                \* every tool_executor invocation, in order
    deltasUsed,             \* LLM stream events consumed so far
    fut,                    \* the asyncio future of the in-flight MCP request
    \* ---- part 2: tool registry and executor
    tool_op,                \* the registry/executor entry point that has run, or "idle"
    tool_call,              \* its arguments
    tool_result,            \* the text it returned, by kind
    shell_invocations,      \* commands handed to asyncio.create_subprocess_shell
    tool_defs,              \* names of the definitions get_tool_definitions returned
    \* ---- part 3: MCP execution adapter
    now,                    \* time.time()
    windows,                \* _RateLimiter._windows: key -> timestamps
    limiter_passed,         \* every call the limiter let pass: its key and time
    audit_rows,             \* number of MCPAuditLog rows committed
    last_audit_row,         \* the row committed last
    mcp_call,               \* arguments of the last _execute_mcp call
    mcp_result,             \* what it returned
    calls_made,             \* number of _execute_mcp calls so far
    \* ---- Part 4: the MCP client manager
    servers,                \* MCPServerRegistry._servers: slug -> config version
    connections,            \* MCPClientManager._connections: slug -> connection
    conn_objects,           \* the MCPClientConnection objects created so far
    manager_lock,           \* holder of MCPClientManager._lock
    task_pc,                \* where each calling task is in _execute_mcp
    task_slug,              \* the server its call is for
    task_config,            \* the server_config it read from the registry
    task_conn,              \* the connection get_or_connect handed to it
    update_pc,              \* where the update_server request is
    update_slug,            \* the server it updates
    update_conn,            \* the connection it is tearing down
    completed_version,      \* slug -> config version of the last completed update
    last_call,              \* the last conn.call_tool made
    manager_calls,          \* number of calls started so far
    \* ---- Part 5: the provider cache of LLMClient
    clock,                  \* time.time(), in seconds
    provider_config,        \* the provider configuration in the database
    providers,              \* LLMClient._providers: key -> cached driver
    provider_cache_ts,      \* LLMClient._provider_cache_ts
    last_resolved,          \* what _resolve_provider returned last
    \* ---- Part 6: the context builder
    build_pc,               \* where ContextBuilder.build is
    budget_tokens,          \* its budget_tokens argument
    remaining_budget,       \* its remaining_budget
    sources_left,           \* number of sources not yet asked
    pending_sections,       \* sections of the current source not yet looked at
    all_sections,           \* its all_sections: the sections kept
    \* ---- Part 7: the context window manager
    window_op,              \* "idle" until a list has been trimmed
    window_messages,        \* the messages handed to _truncate_messages
    window_budget,          \* its budget
    window_result,          \* the list it returned
    \* ---- Part 8: tool calls rebuilt from deltas in two arrival orders
    deltas_op,              \* "idle" until a response has been rebuilt twice
    arrival_a,              \* the tool_call_deltas of the response, as they arrived
    arrival_b,              \* the same deltas in another arrival order
    pending_a,              \* pending_tool_calls rebuilt from arrival_a
    pending_b,              \* pending_tool_calls rebuilt from arrival_b
    \* ---- Part 9: Studio names of MCP tools
    naming_op,              \* "idle" until a name has been made and parsed
    naming_slug,            \* the server slug
    naming_tool,            \* the MCP tool name
    naming_parsed,          \* what parse_studio_tool_name returned
    \* ---- Part 10: the token budget manager
    budget_now,             \* time.time()
    limits,                 \* BudgetManager._limits
    budget_usage,           \* BudgetManager._usage
    records_made,           \* record_usage calls so far
    budget_call,            \* the last call of the manager and its result
    \* ---- Part 11: the vector index and the background indexer
    workspace,              \* the indexed files: content and mtime
    ws_clock,               \* the time of the last write
    index_entries,          \* VectorIndex._entries
    index_dirty,            \* VectorIndex._dirty
    indexed_files,          \* BackgroundIndexer._indexed_files, 0 when absent
    index_pc,               \* "idle", or "embedding" while a pass awaits embed_text
    to_index,               \* the files of the pass still to finish, current first
    pending_chunks,         \* the chunks of the current file still to embed
    last_scan,              \* the files the last pass found
    passes,                 \* index_once calls so far
    flush_pc,               \* "idle", "inserting" or "committed"
    flush_pos,              \* position of the iteration over _entries
    flush_rows,             \* rows inserted in the open transaction
    flush_held,             \* the states the index held during the flush
    db_rows,                \* the committed rows of rag_index
    flushes,                \* save_to_db calls so far
    \* ---- Part 12: the JSON-RPC requests of one MCP connection
    rpc_next_id,            \* the id the next request gets
    rpc_pending,            \* the ids in MCPClientConnection._pending
    rpc_fut,                \* the future of each request
    rpc_req,                \* where the caller of each _send_request is
    rpc_reason,             \* how each request completed
    rpc_stdout,             \* the responses written and not yet read
    rpc_responses,          \* responses written so far
    rpc_process,            \* the subprocess: "running", "exited" or "none"
    rpc_reader,             \* the reader task: "running", "eof" or "cancelled"
    rpc_connected,          \* MCPClientConnection._connected
    eof_pending,            \* the ids that were pending when the reader saw EOF
    last_read,              \* the last message the reader handled
    \* ---- Part 13: tool messages and summaries in the context window
    ctx_op,                 \* "idle", "trimmed" or "summarized"
    ctx_messages,           \* the list handed to the window manager
    ctx_result,             \* the list it returned
    ctx_summary,            \* the summary it returned
    ctx_llm,                \* the LLM call made for the summary
    \* ---- Part 14: the registry and the connection pool across projects
    reg_rows,               \* the rows of the MCPServer table
    reg_servers,            \* MCPServerRegistry._servers
    pool_connections,       \* MCPClientManager._connections
    pool_call,              \* the last conn.call_tool: its project and the env it ran with
    pool_steps              \* requests handled so far

agentVars == <<pc, tools, tool_executor, enable_reflection, current_messages,
          total_tool_rounds, seen_tool_calls, all_tool_calls, fabrication_retries,
          pending_tool_calls, started_tool_calls, response_has_content,
          stream_finish_reason, response_text_parts, usage_data,
          current_tool_choice, sorted_tcs, tool_results_messages, tcIndex,
          events, llmCalls, execLog, deltasUsed, fut>>
toolVars == <<tool_op, tool_call, tool_result, shell_invocations, tool_defs>>
adapterVars == <<now, windows, limiter_passed, audit_rows, last_audit_row, mcp_call,
                 mcp_result, calls_made>>
managerVars == <<servers, connections, conn_objects, manager_lock, task_pc, task_slug,
                 task_config, task_conn, update_pc, update_slug, update_conn,
                 completed_version,
                 last_call, manager_calls>>
cacheVars == <<clock, provider_config, providers, provider_cache_ts, last_resolved>>
builderVars == <<build_pc, budget_tokens, remaining_budget, sources_left,
                 pending_sections, all_sections>>
windowVars == <<window_op, window_messages, window_budget, window_result>>
deltasVars == <<deltas_op, arrival_a, arrival_b, pending_a, pending_b>>
namingVars == <<naming_op, naming_slug, naming_tool, naming_parsed>>
budgetVars == <<budget_now, limits, budget_usage, records_made, budget_call>>
indexVars == <<workspace, ws_clock, index_entries, index_dirty, indexed_files,
               index_pc, to_index, pending_chunks, last_scan, passes, flush_pc,
               flush_pos, flush_rows, flush_held, db_rows, flushes>>
rpcVars == <<rpc_next_id, rpc_pending, rpc_fut, rpc_req, rpc_reason, rpc_stdout,
             rpc_responses, rpc_process, rpc_reader, rpc_connected, eof_pending,
             last_read>>
contextVars == <<ctx_op, ctx_messages, ctx_result, ctx_summary, ctx_llm>>
poolVars == <<reg_rows, reg_servers, pool_connections, pool_call, pool_steps>>
\* the variables of the parts other than the agent run
componentVars == <<toolVars, adapterVars, managerVars, cacheVars, builderVars,
                   windowVars, deltasVars, namingVars, budgetVars, indexVars, rpcVars,
                   contextVars, poolVars>>
\* the variables a part leaves alone
notToolVars == <<agentVars, adapterVars, managerVars, cacheVars, builderVars,
                 windowVars, deltasVars, namingVars, budgetVars, indexVars, rpcVars,
                 contextVars, poolVars>>
notAdapterVars == <<agentVars, toolVars, managerVars, cacheVars, builderVars,
                    windowVars, deltasVars, namingVars, budgetVars, indexVars, rpcVars,
                    contextVars, poolVars>>
notManagerVars == <<agentVars, toolVars, adapterVars, cacheVars, builderVars,
                    windowVars, deltasVars, namingVars, budgetVars, indexVars, rpcVars,
                    contextVars, poolVars>>
notCacheVars == <<agentVars, toolVars, adapterVars, managerVars, builderVars,
                  windowVars, deltasVars, namingVars, budgetVars, indexVars, rpcVars,
                  contextVars, poolVars>>
notBuilderVars == <<agentVars, toolVars, adapterVars, managerVars, cacheVars,
                    windowVars, deltasVars, namingVars, budgetVars, indexVars, rpcVars,
                    contextVars, poolVars>>
notWindowVars == <<agentVars, toolVars, adapterVars, managerVars, cacheVars,
                   builderVars, deltasVars, namingVars, budgetVars, indexVars, rpcVars,
                   contextVars, poolVars>>
notDeltasVars == <<agentVars, toolVars, adapterVars, managerVars, cacheVars,
                   builderVars, windowVars, namingVars, budgetVars, indexVars, rpcVars,
                   contextVars, poolVars>>
notNamingVars == <<agentVars, toolVars, adapterVars, managerVars, cacheVars,
                   builderVars, windowVars, deltasVars, budgetVars, indexVars, rpcVars,
                   contextVars, poolVars>>
notBudgetVars == <<agentVars, toolVars, adapterVars, managerVars, cacheVars,
                   builderVars, windowVars, deltasVars, namingVars, indexVars, rpcVars,
                   contextVars, poolVars>>
notIndexVars == <<agentVars, toolVars, adapterVars, managerVars, cacheVars,
                  builderVars, windowVars, deltasVars, namingVars, budgetVars, rpcVars,
                  contextVars, poolVars>>
notRpcVars == <<agentVars, toolVars, adapterVars, managerVars, cacheVars, builderVars,
                windowVars, deltasVars, namingVars, budgetVars, indexVars, contextVars,
                poolVars>>
notContextVars == <<agentVars, toolVars, adapterVars, managerVars, cacheVars,
                    builderVars, windowVars, deltasVars, namingVars, budgetVars,
                    indexVars, rpcVars, poolVars>>
notPoolVars == <<agentVars, toolVars, adapterVars, managerVars, cacheVars, builderVars,
                 windowVars, deltasVars, namingVars, budgetVars, indexVars, rpcVars,
                 contextVars>>
vars == <<agentVars, componentVars>>

inputVars == <<tools, tool_executor, enable_reflection>>
runVars == <<current_messages, total_tool_rounds, seen_tool_calls, all_tool_calls,
             fabrication_retries>>
respVars == <<pending_tool_calls, started_tool_calls, response_has_content,
              stream_finish_reason, response_text_parts, usage_data>>
roundVars == <<sorted_tcs, tool_results_messages, tcIndex>>

\* ------------------------------------------------------------- pure helpers
RECURSIVE Concat(_)
\* "".join(parts)
Concat(parts) == IF parts = <<>> THEN <<>> ELSE Head(parts) \o Concat(Tail(parts))

\* One alternative of _FABRICATION_PATTERNS[2], (yi)(shanchu) "already deleted":
\* the character "Y" (yi) directly followed by "S","C" (shan, chu).
MatchesFabricationPattern(text) ==
    \E k \in 1..(Len(text) - 2) :
        text[k] = "Y" /\ text[k + 1] = "S" /\ text[k + 2] = "C"

detect_fabrication(text) ==
    IF text = <<>> \/ Len(text) < MinFabLen THEN FALSE
    ELSE MatchesFabricationPattern(text)

\* Argument strings are sequences of tokens: "{" and "}" delimit a JSON object,
\* "a" stands for the member "a":1 and "b" for the member "b":2.
Members == {"a", "b"}

IsJsonObject(s) ==
    /\ Len(s) >= 2
    /\ s[1] = "{"
    /\ s[Len(s)] = "}"
    /\ \A k \in 2..(Len(s) - 1) : s[k] \in Members

\* json.loads(tc["arguments"]) if tc["arguments"] else {} ; {"_raw": ...} on error.
\* A parsed object is the set of its members (a dict has no member order).
ParseArguments(s) ==
    IF s = <<>> THEN [raw |-> <<>>, members |-> {}]
    ELSE IF IsJsonObject(s)
         THEN [raw |-> <<>>, members |-> {s[k] : k \in 2..(Len(s) - 1)}]
         ELSE [raw |-> s, members |-> {"_raw"}]

\* json.dumps(arguments, sort_keys=True): members in key order.
DumpsSorted(arguments) ==
    <<"{">>
    \o (IF "_raw" \in arguments.members THEN <<"_raw">> \o arguments.raw ELSE <<>>)
    \o (IF "a" \in arguments.members THEN <<"a">> ELSE <<>>)
    \o (IF "b" \in arguments.members THEN <<"b">> ELSE <<>>)
    \o <<"}">>

\* CallSig taken from the raw argument string instead of the canonical dump
CallSig_Raw(tc) == <<tc.name, tc.arguments>>

\* call_sig = f"{tc['name']}:{json.dumps(arguments, sort_keys=True)}"
CallSig(tc) == <<tc.name, DumpsSorted(ParseArguments(tc.arguments))>>

\* ------------------------------------------------------ records and inputs
NoId == ""
NoName == ""

\* AgentEvent(type, data); num is duration_ms of a tool_result and tool_rounds
\* of a usage event.
Ev(type, id, name, info, num) ==
    [type |-> type, id |-> id, name |-> name, args |-> <<>>, info |-> info, num |-> num]

\* a message dict of current_messages
Msg(role, content, text, tool_call_id, tool_calls) ==
    [role |-> role, content |-> content, text |-> text,
     tool_call_id |-> tool_call_id, tool_calls |-> tool_calls]

\* Content chunks the model can stream.
ChunkPlain == <<"o", "k">>
ChunkFab == <<"Y", "S", "C", " ", "/", "t", "m", "p", "/", "f">>
Chunks == {ChunkPlain, ChunkFab}

\* tool_call_delta events the model can stream: (index, id, name, arguments_delta).
TcDelta(idx, id, name, args) == [idx |-> idx, id |-> id, name |-> name, args |-> args]
ToolCallDeltas ==
    { TcDelta(0, "c1", "read_file", <<"{", "a", "b", "}">>),
      TcDelta(0, "c3", "mcp_gh__t", <<"{", "a">>),
      TcDelta(0, NoId, NoName, <<"}">>),
      TcDelta(1, "c2", "ask_user", <<>>),
      TcDelta(1, NoId, "ask_user", <<>>),
      TcDelta(1, "c2", NoName, <<>>),
      TcDelta(2, "c4", "read_file", <<"{", "b", "a", "}">>) }

FinishReasons == {"stop", "length"}

\* parse_studio_tool_name(name) is not None
IsMcpTool(name) == name = "mcp_gh__t"

\* Outcomes of a returning executor call: whether the result text is cut to the
\* remaining context budget (either of the two cutting branches, which differ
\* only in the marker they append), and the measured duration_ms.
ExecOutcomes ==
    { [trim |-> "none", dur |-> 0], [trim |-> "cut", dur |-> 7] }

ReflectOutcomes == {"None", "continue", "abort"}

\* --------------------------------------------------------------------- Init
AgentInit ==
    /\ pc = "start"
    /\ tools \in BOOLEAN
    /\ tool_executor \in BOOLEAN
    /\ enable_reflection \in BOOLEAN
    /\ current_messages = <<>>
    /\ total_tool_rounds = 0
    /\ seen_tool_calls = {}
    /\ all_tool_calls = <<>>
    /\ fabrication_retries = 0
    /\ pending_tool_calls = <<>>
    /\ started_tool_calls = {}
    /\ response_has_content = FALSE
    /\ stream_finish_reason = "None"
    /\ response_text_parts = <<>>
    /\ usage_data = FALSE
    /\ current_tool_choice = "auto"
    /\ sorted_tcs = <<>>
    /\ tool_results_messages = <<>>
    /\ tcIndex = 0
    /\ events = <<>>
    /\ llmCalls = <<>>
    /\ execLog = <<>>
    /\ deltasUsed = 0
    /\ fut = "none"

\* ------------------------------------------------------------ BaseAgent.run
\* plan(): None for ReActAgent itself, a plan for a subclass that overrides it.
RunStart ==
    /\ pc = "start"
    /\ \E enable_planning \in BOOLEAN, plan \in {"None", "plan"} :
         events' = IF enable_planning /\ plan # "None"
                   THEN Append(events, Ev("plan_update", NoId, NoName, "", 0))
                   ELSE events
    /\ pc' = "call"
    /\ UNCHANGED <<componentVars, inputVars, runVars, respVars, roundVars, current_tool_choice,
                   llmCalls, execLog, deltasUsed, fut>>

\* ------------------------------------------------- ReActAgent.act: streaming
\* the record of one client.stream call
LlmCall(tool_choice, outcome) ==
    [tool_choice |-> tool_choice, at |-> Len(events), outcome |-> outcome]

\* the record of the current call once its stream has ended
Ended(calls, outcome) == [calls EXCEPT ![Len(calls)].outcome = outcome]

\* AfterError with a new call in place of the return
AfterError_Retry == "call"

\* AfterError without the return
AfterError_Continue == "streaming"

\* where the run continues after it has yielded ERROR: `return`
AfterError == "done"

\* Head of `while True` and the call of client.stream; LLMClient.stream yields
\* one error event and returns when _check_auth reports an error.
LLMCall ==
    /\ pc = "call"
    /\ pending_tool_calls' = <<>>
    /\ started_tool_calls' = {}
    /\ response_has_content' = FALSE
    /\ stream_finish_reason' = "None"
    /\ response_text_parts' = <<>>
    /\ usage_data' = FALSE
    /\ current_tool_choice' = IF fabrication_retries > 0 THEN "required" ELSE "auto"
    /\ \E auth_error \in BOOLEAN :
         IF auth_error
         THEN /\ events' = Append(events, Ev("error", NoId, NoName, "auth", 0))
              /\ llmCalls' = Append(llmCalls, LlmCall(current_tool_choice', "auth_error"))
              /\ pc' = AfterError
         ELSE /\ events' = events
              /\ llmCalls' = Append(llmCalls, LlmCall(current_tool_choice', "open"))
              /\ pc' = "streaming"
    /\ UNCHANGED <<componentVars, inputVars, runVars, roundVars, execLog, deltasUsed, fut>>

Streaming == pc = "streaming" /\ deltasUsed < MaxDeltas

OnContent ==
    /\ Streaming
    /\ \E chunk \in Chunks :
         /\ events' = Append(events, Ev("content", NoId, NoName, "llm", 0))
         /\ response_text_parts' = Append(response_text_parts, chunk)
    /\ response_has_content' = TRUE
    /\ deltasUsed' = deltasUsed + 1
    /\ UNCHANGED <<componentVars, pc, inputVars, runVars, roundVars, pending_tool_calls,
                   started_tool_calls, stream_finish_reason, usage_data,
                   current_tool_choice, llmCalls, execLog, fut>>

OnThinking ==
    /\ Streaming
    /\ events' = Append(events, Ev("thinking", NoId, NoName, "llm", 0))
    /\ deltasUsed' = deltasUsed + 1
    /\ UNCHANGED <<componentVars, pc, inputVars, runVars, respVars, roundVars,
                   current_tool_choice, llmCalls, execLog, fut>>

\* position of idx in the dict's items, 0 when absent
PosOf(items, idx) ==
    IF \E k \in 1..Len(items) : items[k].idx = idx
    THEN CHOOSE k \in 1..Len(items) : items[k].idx = idx
    ELSE 0

\* a merge that appends arguments_delta to the entry inserted last
MergeDelta_IntoLast(items, d) ==
    LET withEntry == IF PosOf(items, d.idx) = 0
                     THEN Append(items, [idx |-> d.idx, id |-> NoId,
                                         name |-> NoName, arguments |-> <<>>])
                     ELSE items
        k == PosOf(withEntry, d.idx)
        last == Len(withEntry)
        named == [withEntry EXCEPT ![k] =
                    [idx |-> withEntry[k].idx,
                     id |-> IF d.id # NoId THEN d.id ELSE withEntry[k].id,
                     name |-> IF d.name # NoName THEN d.name ELSE withEntry[k].name,
                     arguments |-> withEntry[k].arguments]]
    IN  [named EXCEPT ![last].arguments = named[last].arguments \o d.args]

\* pending_tool_calls after the delta d has been merged into it
MergeDelta(items, d) ==
    LET withEntry == IF PosOf(items, d.idx) = 0
                     THEN Append(items, [idx |-> d.idx, id |-> NoId,
                                         name |-> NoName, arguments |-> <<>>])
                     ELSE items
        k == PosOf(withEntry, d.idx)
        tc == withEntry[k]
    IN  [withEntry EXCEPT ![k] =
            [idx |-> tc.idx,
             id |-> IF d.id # NoId THEN d.id ELSE tc.id,
             name |-> IF d.name # NoName THEN d.name ELSE tc.name,
             arguments |-> tc.arguments \o d.args]]

\* an early notification that does not wait for the id
EmitsStart_WithoutId(items, started, d) ==
    /\ d.name = "ask_user"
    /\ d.idx \notin started

\* the early ask_user notification of the tool_call_delta branch
EmitsStart(items, started, d) ==
    /\ d.name = "ask_user"
    /\ d.idx \notin started
    /\ MergeDelta(items, d)[PosOf(MergeDelta(items, d), d.idx)].id # NoId

OnToolCallDelta ==
    /\ Streaming
    /\ \E d \in ToolCallDeltas :
         /\ pending_tool_calls' = MergeDelta(pending_tool_calls, d)
         /\ IF EmitsStart(pending_tool_calls, started_tool_calls, d)
            THEN /\ started_tool_calls' = started_tool_calls \cup {d.idx}
                 /\ events' = Append(events,
                        Ev("tool_call_start",
                           pending_tool_calls'[PosOf(pending_tool_calls', d.idx)].id,
                           "ask_user", "", 0))
            ELSE /\ started_tool_calls' = started_tool_calls
                 /\ events' = events
    /\ deltasUsed' = deltasUsed + 1
    /\ UNCHANGED <<componentVars, pc, inputVars, runVars, roundVars, response_has_content,
                   stream_finish_reason, response_text_parts, usage_data,
                   current_tool_choice, llmCalls, execLog, fut>>

OnUsage ==
    /\ Streaming
    /\ ~usage_data
    /\ usage_data' = TRUE
    /\ deltasUsed' = deltasUsed + 1
    /\ UNCHANGED <<componentVars, pc, inputVars, runVars, roundVars, pending_tool_calls,
                   started_tool_calls, response_has_content, stream_finish_reason,
                   response_text_parts, current_tool_choice, events, llmCalls,
                   execLog, fut>>

OnFinish ==
    /\ Streaming
    /\ stream_finish_reason = "None"
    /\ \E reason \in FinishReasons : stream_finish_reason' = reason
    /\ deltasUsed' = deltasUsed + 1
    /\ UNCHANGED <<componentVars, pc, inputVars, runVars, roundVars, pending_tool_calls,
                   started_tool_calls, response_has_content, response_text_parts,
                   usage_data, current_tool_choice, events, llmCalls, execLog, fut>>

\* evt_type == "error": yield ERROR and return
OnError ==
    /\ Streaming
    /\ events' = Append(events, Ev("error", NoId, NoName, "llm", 0))
    /\ llmCalls' = Ended(llmCalls, "error")
    /\ pc' = AfterError
    /\ deltasUsed' = deltasUsed + 1
    /\ UNCHANGED <<componentVars, inputVars, runVars, respVars, roundVars, current_tool_choice,
                   execLog, fut>>

\* except Exception around the stream: yield ERROR and return
StreamRaise ==
    /\ Streaming
    /\ events' = Append(events, Ev("error", NoId, NoName, "exception", 0))
    /\ llmCalls' = Ended(llmCalls, "raised")
    /\ pc' = AfterError
    /\ deltasUsed' = deltasUsed + 1
    /\ UNCHANGED <<componentVars, inputVars, runVars, respVars, roundVars, current_tool_choice,
                   execLog, fut>>

\* --------------------------------------------- ReActAgent.act: after a stream
\* SortByIdx that keeps the arrival order of the dict
SortByIdx_Unsorted(items) == items

RECURSIVE SortByIdx(_)
\* sorted(pending_tool_calls.items())
SortByIdx(items) ==
    IF items = <<>> THEN <<>>
    ELSE LET m == CHOOSE k \in 1..Len(items) :
                      \A j \in 1..Len(items) : items[k].idx <= items[j].idx
             rest == [j \in 1..(Len(items) - 1) |->
                          IF j < m THEN items[j] ELSE items[j + 1]]
         IN  <<items[m]>> \o SortByIdx(rest)

\* the assistant message that carries the round's tool calls
AssistantToolCallsMsg(tcs) ==
    Msg("assistant", "null", <<>>, NoId,
        [k \in 1..Len(tcs) |->
            [id |-> tcs[k].id, name |-> tcs[k].name, arguments |-> tcs[k].arguments]])

\* ExceedsCap with the comparison off by one
ExceedsCap_OffByOne(rounds) == rounds > max_tool_rounds + 1

\* if total_tool_rounds > input.max_tool_rounds
ExceedsCap(rounds) == rounds > max_tool_rounds

\* AfterCapNotice without the return
AfterCapNotice_Continue == "call"

\* where the run continues after the stop notice of the round cap: `return`
AfterCapNotice == "done"

\* AfterTruncation that keeps the accumulated calls
AfterTruncation_Keep(reason, pending) == pending

\* if stream_finish_reason == "length": pending_tool_calls.clear()
AfterTruncation(reason, pending) == IF reason = "length" THEN <<>> ELSE pending

\* FabricationCheckDue with the retry bound off by one
FabricationCheckDue_OffByOne(has_content, tools_offered, retries) ==
    has_content /\ tools_offered /\ retries <= MaxFabRetries

\* if response_has_content and tools and fabrication_retries < 2
FabricationCheckDue(has_content, tools_offered, retries) ==
    has_content /\ tools_offered /\ retries < MaxFabRetries

\* The stream is exhausted: usage, truncation check, then either the start of a
\* tool-dispatch round or the fabrication check of a content-only response.
StreamEnd ==
    /\ pc = "streaming"
    /\ llmCalls' = Ended(llmCalls, "ok")
    /\ LET e1 == IF usage_data
                 THEN Append(events, Ev("usage", NoId, NoName, "", total_tool_rounds))
                 ELSE events
           pend == AfterTruncation(stream_finish_reason, pending_tool_calls)
           e2 == IF stream_finish_reason = "length" /\ response_has_content
                 THEN Append(e1, Ev("truncated", NoId, NoName, "", 0))
                 ELSE e1
       IN  /\ pending_tool_calls' = pend
           /\ IF pend # <<>> /\ tool_executor
              THEN /\ total_tool_rounds' = total_tool_rounds + 1
                   /\ IF ExceedsCap(total_tool_rounds')
                      THEN /\ events' = Append(e2, Ev("content", NoId, NoName, "stop_notice", 0))
                           /\ pc' = AfterCapNotice
                           /\ UNCHANGED <<current_messages, roundVars>>
                      ELSE /\ events' = e2
                           /\ sorted_tcs' = SortByIdx(pend)
                           /\ tool_results_messages' = <<>>
                           /\ current_messages' =
                                  Append(current_messages, AssistantToolCallsMsg(sorted_tcs'))
                           /\ tcIndex' = 1
                           /\ pc' = "dispatch"
                   /\ UNCHANGED fabrication_retries
              ELSE /\ \E fabrication_enabled \in BOOLEAN :
                        IF /\ FabricationCheckDue(response_has_content, tools,
                                                  fabrication_retries)
                           /\ fabrication_enabled
                           /\ detect_fabrication(Concat(response_text_parts))
                        THEN /\ fabrication_retries' = fabrication_retries + 1
                             /\ current_messages' = current_messages \o
                                  << Msg("assistant", "full_text",
                                         Concat(response_text_parts), NoId, <<>>),
                                     Msg("user", "correction", <<>>, NoId, <<>>) >>
                             /\ events' = Append(e2, Ev("content", NoId, NoName, "fab_notice", 0))
                             /\ pc' = "call"
                        ELSE /\ events' = IF ~response_has_content
                                          THEN Append(e2, Ev("content", NoId, NoName,
                                                             "empty_notice", 0))
                                          ELSE e2
                             /\ pc' = "done"
                             /\ UNCHANGED <<fabrication_retries, current_messages>>
                   /\ UNCHANGED <<total_tool_rounds, roundVars>>
    /\ UNCHANGED <<componentVars, inputVars, seen_tool_calls, all_tool_calls, started_tool_calls,
                   response_has_content, stream_finish_reason, response_text_parts,
                   usage_data, current_tool_choice, execLog, deltasUsed, fut>>

\* ------------------------------------------- ReActAgent.act: tool dispatching
CurTc == sorted_tcs[tcIndex]

ToolMsg(tc, content) == Msg("tool", content, <<>>, tc.id, <<>>)

\* an event about the tool call tc, carrying its parsed arguments
ToolEv(type, tc, info, num) ==
    [type |-> type, id |-> tc.id, name |-> tc.name,
     args |-> DumpsSorted(ParseArguments(tc.arguments)), info |-> info, num |-> num]

\* is_duplicate = call_sig in seen_tool_calls
IsDuplicate(call_sig, seen) == call_sig \in seen

\* DupToolMessages without the append
DupToolMessages_Dropped(msgs, tc) == msgs

\* the duplicate branch queues the synthetic text as the call's tool message
DupToolMessages(msgs, tc) == Append(msgs, ToolMsg(tc, "dup_text"))

\* duration_ms of the synthetic result of a duplicate
DupDuration == 0

\* One iteration of `for _, tc in sorted_tcs` up to the executor call: parse the
\* arguments, duplicate check, yield TOOL_CALL, and the duplicate branch.
DispatchCall ==
    /\ pc = "dispatch"
    /\ tcIndex <= Len(sorted_tcs)
    /\ LET tc == CurTc
           call_sig == CallSig(tc)
           is_duplicate == IsDuplicate(call_sig, seen_tool_calls)
           e1 == Append(events, ToolEv("tool_call", tc, "", 0))
       IN  /\ seen_tool_calls' = seen_tool_calls \cup {call_sig}
           /\ IF is_duplicate
              THEN /\ events' = Append(e1, ToolEv("tool_result", tc, "dup_text", DupDuration))
                   /\ tool_results_messages' = DupToolMessages(tool_results_messages, tc)
                   /\ tcIndex' = tcIndex + 1
                   /\ pc' = "dispatch"
              ELSE /\ events' = e1
                   /\ pc' = "exec"
                   /\ UNCHANGED <<tool_results_messages, tcIndex>>
    /\ UNCHANGED <<componentVars, inputVars, current_messages, total_tool_rounds, all_tool_calls,
                   fabrication_retries, respVars, current_tool_choice, sorted_tcs,
                   llmCalls, execLog, deltasUsed, fut>>

ExecEntry(tc) == [name |-> tc.name, sig |-> CallSig(tc), at |-> Len(events)]

\* result_text after the cut to the remaining context budget
ResultText(base, trim) ==
    IF trim = "none" THEN base
    ELSE IF base = "result" THEN "result_cut" ELSE "mcp_no_response_cut"

\* the executor returned: yield TOOL_RESULT, record the call, queue the tool message
CallReturned(tc, base, outcome) ==
    /\ events' = Append(events, ToolEv("tool_result", tc,
                                       ResultText(base, outcome.trim), outcome.dur))
    /\ all_tool_calls' = Append(all_tool_calls, tc.id)
    /\ tool_results_messages' =
           Append(tool_results_messages, ToolMsg(tc, ResultText(base, outcome.trim)))
    /\ tcIndex' = tcIndex + 1
    /\ pc' = "dispatch"

\* the executor raised an Exception: yield TOOL_ERROR, record, queue the error text
CallRaised(tc) ==
    /\ events' = Append(events, Ev("tool_error", tc.id, tc.name, "error_msg", 0))
    /\ all_tool_calls' = Append(all_tool_calls, tc.id)
    /\ tool_results_messages' = Append(tool_results_messages, ToolMsg(tc, "error_msg"))
    /\ tcIndex' = tcIndex + 1
    /\ pc' = "dispatch"

\* await tool_executor(...) returns without suspending on an MCP request: a
\* built-in tool, or an MCP tool refused before the request is sent.
ExecReturn ==
    /\ pc = "exec"
    /\ execLog' = Append(execLog, ExecEntry(CurTc))
    /\ \E outcome \in ExecOutcomes : CallReturned(CurTc, "result", outcome)
    /\ UNCHANGED <<componentVars, inputVars, current_messages, total_tool_rounds, seen_tool_calls,
                   fabrication_retries, respVars, current_tool_choice, sorted_tcs,
                   llmCalls, deltasUsed, fut>>

ExecRaise ==
    /\ pc = "exec"
    /\ execLog' = Append(execLog, ExecEntry(CurTc))
    /\ CallRaised(CurTc)
    /\ UNCHANGED <<componentVars, inputVars, current_messages, total_tool_rounds, seen_tool_calls,
                   fabrication_retries, respVars, current_tool_choice, sorted_tcs,
                   llmCalls, deltasUsed, fut>>

\* ---------------------------------------------- an MCP tool call in flight
\* tool_executor -> MCPExecutionAdapter._execute_mcp -> conn.call_tool ->
\* _send_request: the future is registered in _pending, the request written,
\* and the caller suspends in asyncio.wait_for(fut, timeout).
ExecMcpSend ==
    /\ pc = "exec"
    /\ IsMcpTool(CurTc.name)
    /\ execLog' = Append(execLog, ExecEntry(CurTc))
    /\ fut' = "pending"
    /\ pc' = "mcp_wait"
    /\ UNCHANGED <<componentVars, inputVars, runVars, respVars, roundVars, current_tool_choice,
                   events, llmCalls, deltasUsed>>

\* _read_stdout_loop reads the response: pops the future and sets its result
\* (the result, or {"_error": ...} for a JSON-RPC error).
McpReaderResponse ==
    /\ fut = "pending"
    /\ \E r \in {"result", "rpc_error"} : fut' = r
    /\ UNCHANGED <<componentVars, pc, inputVars, runVars, respVars, roundVars, current_tool_choice,
                   events, llmCalls, execLog, deltasUsed>>

\* MCPClientConnection.disconnect while the request is pending (a configuration
\* update or a reconnect): every pending future is cancelled, _pending cleared.
McpDisconnect ==
    /\ fut = "pending"
    /\ fut' = "cancelled"
    /\ UNCHANGED <<componentVars, pc, inputVars, runVars, respVars, roundVars, current_tool_choice,
                   events, llmCalls, execLog, deltasUsed>>

\* asyncio.TimeoutError in _send_request: None, so call_tool returns the
\* "no response" error dict, which _execute_mcp turns into the result text.
McpTimeout ==
    /\ pc = "mcp_wait"
    /\ fut = "pending"
    /\ fut' = "none"
    /\ \E outcome \in ExecOutcomes : CallReturned(CurTc, "mcp_no_response", outcome)
    /\ UNCHANGED <<componentVars, inputVars, current_messages, total_tool_rounds, seen_tool_calls,
                   fabrication_retries, respVars, current_tool_choice, sorted_tcs,
                   llmCalls, execLog, deltasUsed>>

\* does `except Exception` catch what a cancelled future raises in its waiter?
\* asyncio.CancelledError derives from BaseException, so it does not.
ExceptExceptionCatchesCancelled == FALSE

\* The waiter of the future resumes.  A result or an RPC error becomes the text
\* the executor returns.  A cancelled future raises asyncio.CancelledError in
\* wait_for; neither _send_request, _execute_mcp nor act catches it (all three
\* use `except Exception`), so it leaves the generator and the run is over.
McpResume ==
    /\ pc = "mcp_wait"
    /\ fut \in {"result", "rpc_error", "cancelled"}
    /\ fut' = "none"
    /\ IF fut = "cancelled"
       THEN IF ExceptExceptionCatchesCancelled
            THEN CallRaised(CurTc)
            ELSE /\ pc' = "aborted"
                 /\ UNCHANGED <<events, all_tool_calls, tool_results_messages, tcIndex>>
       ELSE \E outcome \in ExecOutcomes :
                CallReturned(CurTc, IF fut = "result" THEN "result" ELSE "mcp_no_response",
                             outcome)
    /\ UNCHANGED <<componentVars, inputVars, current_messages, total_tool_rounds, seen_tool_calls,
                   fabrication_retries, respVars, current_tool_choice, sorted_tcs,
                   llmCalls, execLog, deltasUsed>>

\* -------------------------------------------- ReActAgent.act: end of a round
\* HasAskUser that never sees the call
HasAskUser_Never(tcs) == FALSE

\* has_ask_user = any(tc["name"] == "ask_user" for _, tc in sorted_tcs)
HasAskUser(tcs) == \E k \in 1..Len(tcs) : tcs[k].name = "ask_user"

\* After the for loop: extend the message list, the ask_user interrupt, the
\* optional reflection, and `continue`.
RoundEnd ==
    /\ pc = "dispatch"
    /\ tcIndex > Len(sorted_tcs)
    /\ current_messages' = current_messages \o tool_results_messages
    /\ IF HasAskUser(sorted_tcs)
       THEN /\ events' = Append(events, Ev("ask_user_pending", NoId, NoName, "", 0))
            /\ pc' = "done"
       ELSE IF /\ enable_reflection
               /\ total_tool_rounds % reflection_interval = 0
               /\ total_tool_rounds > 0
            THEN \E reflection \in ReflectOutcomes :
                    CASE reflection = "None" ->
                            /\ events' = events
                            /\ pc' = "call"
                      [] reflection = "abort" ->
                            /\ events' = events \o
                                 << Ev("reflection", NoId, NoName, "abort", 0),
                                    Ev("content", NoId, NoName, "abort_notice", 0) >>
                            /\ pc' = "done"
                      [] OTHER ->
                            /\ events' = Append(events,
                                    Ev("reflection", NoId, NoName, reflection, 0))
                            /\ pc' = "call"
            ELSE /\ events' = events
                 /\ pc' = "call"
    /\ UNCHANGED <<componentVars, inputVars, total_tool_rounds, seen_tool_calls, all_tool_calls,
                   fabrication_retries, respVars, current_tool_choice, roundVars,
                   llmCalls, execLog, deltasUsed, fut>>

\* ------------------------------------------------------------ specification
Next ==
    \/ RunStart
    \/ LLMCall
    \/ OnContent
    \/ OnThinking
    \/ OnToolCallDelta
    \/ OnUsage
    \/ OnFinish
    \/ OnError
    \/ StreamRaise
    \/ StreamEnd
    \/ DispatchCall
    \/ ExecReturn
    \/ ExecRaise
    \/ ExecMcpSend
    \/ McpReaderResponse
    \/ McpDisconnect
    \/ McpTimeout
    \/ McpResume
    \/ RoundEnd


\* =================================================================== claims
EvIdx == 1..Len(events)
MsgIdx == 1..Len(current_messages)

NumEv(type) == Cardinality({k \in EvIdx : events[k].type = type})

LastEv == events[Len(events)]

IsStopNotice(e) == e.type = "content" /\ e.info = "stop_notice"

IsDupResult(e) == e.type = "tool_result" /\ e.info = "dup_text"

IsToolCallsMsg(m) == m.role = "assistant" /\ m.content = "null"

\* rounds that were dispatched: each appended one assistant tool_calls message
DispatchedRounds == Cardinality({p \in MsgIdx : IsToolCallsMsg(current_messages[p])})

NumToolMsgs == Cardinality({p \in MsgIdx : current_messages[p].role = "tool"})

\* number of events yielded before the latest client.stream call
LastCallAt == llmCalls[Len(llmCalls)].at

StopNoticeIsFinal ==
    \A k \in EvIdx :
        IsStopNotice(events[k]) =>
            /\ k = Len(events)
            /\ pc = "done"
            /\ \A j \in 1..Len(execLog) : execLog[j].at < k

\* C1 as stated: the tool-round counter never exceeds max_tool_rounds, and the
\* stop notice of the cap is the last thing the run does.
C1_CounterNeverExceedsCap ==
    /\ total_tool_rounds <= max_tool_rounds
    /\ StopNoticeIsFinal

\* C1 amended: at most max_tool_rounds rounds are dispatched and every reported
\* tool_rounds is at most max_tool_rounds; the counter itself reaches
\* max_tool_rounds + 1, exactly in the terminated run whose last event is the
\* stop notice; no tool_call and no executor call follows the stop notice.
C1_CapRespected ==
    /\ total_tool_rounds <= max_tool_rounds + 1
    /\ total_tool_rounds > max_tool_rounds =>
           pc = "done" /\ events # <<>> /\ IsStopNotice(LastEv)
    /\ DispatchedRounds <= max_tool_rounds
    /\ \A k \in EvIdx : events[k].type = "usage" => events[k].num <= max_tool_rounds
    /\ StopNoticeIsFinal

C1_Witness ==
    /\ pc = "done"
    /\ events # <<>>
    /\ IsStopNotice(LastEv)
    /\ execLog # <<>>
    /\ total_tool_rounds = max_tool_rounds + 1

\* C2: when a run has terminated normally, the tool_call events, the tool
\* messages in the message list, and the handled calls (executor invocations
\* plus suppressed duplicates) are equally many.
C2_CallCountsAgree ==
    pc = "done" =>
        /\ NumEv("tool_call") = NumToolMsgs
        /\ NumEv("tool_call") =
               Len(execLog) + Cardinality({k \in EvIdx : IsDupResult(events[k])})

C2_Witness ==
    /\ pc = "done"
    /\ execLog # <<>>
    /\ \E k \in EvIdx : IsDupResult(events[k])
    /\ \E k \in EvIdx : events[k].type = "tool_error"

SeenBefore(k) ==
    \E j \in 1..(k - 1) :
        /\ events[j].type = "tool_call"
        /\ events[j].name = events[k].name
        /\ events[j].args = events[k].args

\* C3: a tool call whose name and canonical arguments were already seen in the
\* run is never passed to the executor; its tool_call event is directly
\* followed by the synthetic tool_result with duration_ms = 0.
C3_DuplicateNeverExecuted ==
    \A k \in EvIdx :
        (events[k].type = "tool_call" /\ SeenBefore(k)) =>
            /\ \A j \in 1..Len(execLog) : execLog[j].at # k
            /\ k < Len(events)
            /\ IsDupResult(events[k + 1])
            /\ events[k + 1].id = events[k].id
            /\ events[k + 1].name = events[k].name
            /\ events[k + 1].num = 0

\* a duplicate whose raw argument string differs from the first call's
C3_Witness ==
    /\ \E k \in EvIdx : IsDupResult(events[k])
    /\ \E p \in MsgIdx :
          /\ IsToolCallsMsg(current_messages[p])
          /\ Len(current_messages[p].tool_calls) = 2
          /\ current_messages[p].tool_calls[1].name = current_messages[p].tool_calls[2].name
          /\ current_messages[p].tool_calls[1].arguments
                 # current_messages[p].tool_calls[2].arguments

\* the message at p opens a complete block: one tool message per call, in order
BlockAt(msgs, p) ==
    LET n == Len(msgs[p].tool_calls)
    IN  /\ n >= 1
        /\ p + n <= Len(msgs)
        /\ \A k \in 1..n :
              /\ msgs[p + k].role = "tool"
              /\ msgs[p + k].tool_call_id = msgs[p].tool_calls[k].id
        /\ p + n + 1 <= Len(msgs) => msgs[p + n + 1].role # "tool"

\* the calls of the current round, in strictly increasing index order
RoundInIndexOrder ==
    /\ Len(sorted_tcs) = Len(pending_tool_calls)
    /\ {sorted_tcs[k] : k \in 1..Len(sorted_tcs)}
           = {pending_tool_calls[k] : k \in 1..Len(pending_tool_calls)}
    /\ \A k \in 1..(Len(sorted_tcs) - 1) : sorted_tcs[k].idx < sorted_tcs[k + 1].idx

\* C4: between rounds the message list consists of complete blocks, one per
\* dispatched round: an assistant message with content null followed by one
\* tool message per call, in call order, with the call's id; while a round is
\* running its assistant message carries the calls in index order and the
\* queued tool messages follow that order, whatever the outcome of each call.
C4_RoundMessagesOrdered ==
    /\ pc \in {"call", "streaming", "done"} =>
          /\ \A p \in MsgIdx :
                /\ IsToolCallsMsg(current_messages[p]) => BlockAt(current_messages, p)
                /\ current_messages[p].role = "tool" =>
                      \E q \in 1..(p - 1) :
                          /\ IsToolCallsMsg(current_messages[q])
                          /\ p - q <= Len(current_messages[q].tool_calls)
          /\ DispatchedRounds =
                 (IF total_tool_rounds > max_tool_rounds
                  THEN max_tool_rounds ELSE total_tool_rounds)
    /\ pc \in {"dispatch", "exec", "mcp_wait"} =>
          /\ RoundInIndexOrder
          /\ current_messages # <<>>
          /\ IsToolCallsMsg(current_messages[Len(current_messages)])
          /\ Len(current_messages[Len(current_messages)].tool_calls) = Len(sorted_tcs)
          /\ \A k \in 1..Len(sorted_tcs) :
                /\ current_messages[Len(current_messages)].tool_calls[k].id = sorted_tcs[k].id
                /\ current_messages[Len(current_messages)].tool_calls[k].name = sorted_tcs[k].name
                /\ current_messages[Len(current_messages)].tool_calls[k].arguments
                       = sorted_tcs[k].arguments
          /\ Len(tool_results_messages) = tcIndex - 1
          /\ \A k \in 1..Len(tool_results_messages) :
                /\ tool_results_messages[k].role = "tool"
                /\ tool_results_messages[k].tool_call_id = sorted_tcs[k].id

\* a finished round of two calls whose deltas arrived in reverse index order
\* and whose executions ended differently
C4_Witness ==
    /\ pc \in {"call", "done"}
    /\ Len(pending_tool_calls) = 2
    /\ pending_tool_calls[1].idx > pending_tool_calls[2].idx
    /\ Len(current_messages) >= 3
    /\ current_messages[Len(current_messages)].role = "tool"
    /\ current_messages[Len(current_messages)].content = "error_msg"
    /\ current_messages[Len(current_messages) - 1].role = "tool"
    /\ current_messages[Len(current_messages) - 1].content # "error_msg"

IsTerminalEv(e) == e.type \in {"error", "ask_user_pending"} \/ IsStopNotice(e)

\* C5: plan_update, if emitted, is the first event of the run, and a terminal
\* event (error, ask_user_pending, the stop notice of the cap) is the last one.
C5_EventOrder ==
    \A k \in EvIdx :
        /\ events[k].type = "plan_update" => k = 1
        /\ IsTerminalEv(events[k]) => k = Len(events) /\ pc = "done"

C5_Witness ==
    /\ Len(events) >= 4
    /\ events[1].type = "plan_update"
    /\ IsStopNotice(LastEv)
    /\ pc = "done"

\* events yielded since the latest client.stream call that satisfy the filter
SinceLastCall(types, id, name) ==
    {k \in EvIdx : /\ k > LastCallAt
                   /\ events[k].type \in types
                   /\ events[k].id = id
                   /\ events[k].name = name}

LastOutcome == llmCalls[Len(llmCalls)].outcome

AskUserCalls(items) == {items[k] : k \in {j \in 1..Len(items) : items[j].name = "ask_user"}}

ErrorOutcomes == {"error", "raised", "auth_error"}

\* C7: a client.stream call that yields an error event, raises, or fails the
\* authentication check is the last call of the run; the run is over with a
\* single error event as its last event, and no tool_call event and no
\* executor call comes after the start of that call.
C7_ErrorEndsRun ==
    /\ \A c \in 1..Len(llmCalls) :
          llmCalls[c].outcome \in ErrorOutcomes =>
              /\ c = Len(llmCalls)
              /\ pc = "done"
              /\ events # <<>>
              /\ LastEv.type = "error"
              /\ NumEv("error") = 1
              /\ \A k \in EvIdx :
                    k > llmCalls[c].at => events[k].type \notin {"tool_call", "tool_result"}
              /\ \A j \in 1..Len(execLog) : execLog[j].at <= llmCalls[c].at
    /\ \A k \in EvIdx :
          events[k].type = "error" => llmCalls # <<>> /\ LastOutcome \in ErrorOutcomes

\* an error in a later response that had already accumulated a tool call
C7_Witness ==
    /\ pc = "done"
    /\ llmCalls # <<>>
    /\ LastOutcome = "error"
    /\ pending_tool_calls # <<>>
    /\ tool_executor
    /\ execLog # <<>>

\* C8 as stated: no failure of a tool execution ends the run; every executor
\* call that is over is followed by the tool_result or tool_error of its call.
C8_ToolFailureIsLocal ==
    /\ pc # "aborted"
    /\ \A j \in 1..Len(execLog) :
          (j < Len(execLog) \/ pc # "mcp_wait") =>
              /\ execLog[j].at < Len(events)
              /\ events[execLog[j].at + 1].type \in {"tool_result", "tool_error"}

IsCorrection(m) == m.role = "user" /\ m.content = "correction"

\* C9: fabrication_retries never exceeds 2; every retry injected exactly one
\* correction message, after an assistant message holding a text that matches
\* the fabrication patterns, and only in a run that was offered tools.
C9_FabricationRetriesBounded ==
    /\ fabrication_retries <= 2
    /\ Cardinality({p \in MsgIdx : IsCorrection(current_messages[p])}) = fabrication_retries
    /\ Cardinality({k \in EvIdx : events[k].type = "content" /\ events[k].info = "fab_notice"})
           = fabrication_retries
    /\ fabrication_retries > 0 => tools
    /\ \A p \in MsgIdx :
          IsCorrection(current_messages[p]) =>
              /\ p > 1
              /\ current_messages[p - 1].role = "assistant"
              /\ current_messages[p - 1].content = "full_text"
              /\ detect_fabrication(current_messages[p - 1].text)

\* two retries, and a third fabricated answer that is let through
C9_Witness ==
    /\ fabrication_retries = 2
    /\ pc = "done"
    /\ Len(llmCalls) = 3
    /\ LastOutcome = "ok"
    /\ detect_fabrication(Concat(response_text_parts))

\* C10: after a response that completed with finish_reason = length no call is
\* pending, no tool_call event and no executor call stems from it, and it
\* produced a truncated event exactly if it produced content.
C10_LengthDiscardsCalls ==
    ( /\ stream_finish_reason = "length"
      /\ pc # "streaming"
      /\ LastOutcome = "ok" )
    => /\ pc \in {"call", "done"}
       /\ pending_tool_calls = <<>>
       /\ \A k \in EvIdx :
             k > LastCallAt => events[k].type \notin {"tool_call", "tool_result", "tool_error"}
       /\ \A j \in 1..Len(execLog) : execLog[j].at <= LastCallAt
       /\ Cardinality({k \in EvIdx : k > LastCallAt /\ events[k].type = "truncated"})
              = (IF response_has_content THEN 1 ELSE 0)

\* a truncated response with content that had started an ask_user call
C10_Witness ==
    /\ stream_finish_reason = "length"
    /\ pc = "done"
    /\ LastOutcome = "ok"
    /\ response_has_content
    /\ started_tool_calls # {}
    /\ tool_executor


\* the tool_call_start events of the current response for the call id
StartsFor(id) ==
    { k \in EvIdx : /\ k > llmCalls[Len(llmCalls)].at
                    /\ events[k].type = "tool_call_start"
                    /\ events[k].id = id }

\* C33: for every ask_user tool call of a streamed response exactly one
\* tool_call_start is emitted, at the first delta after which both its id and
\* its name are known, whichever of the two arrives first.
C33_AskUserStartEmittedOnce ==
    pc = "streaming" =>
        \A k \in 1..Len(pending_tool_calls) :
            LET tc == pending_tool_calls[k]
            IN  (tc.name = "ask_user" /\ tc.id # NoId) =>
                    /\ tc.idx \in started_tool_calls
                    /\ Cardinality(StartsFor(tc.id)) = 1

\* positions of the events of one type that carry the call id and come after k
LaterEvents(k, type, id) ==
    { j \in EvIdx : j > k /\ events[j].type = type /\ events[j].id = id }

DispatchReached(p) ==
    \/ tcIndex > p
    \/ tcIndex = p /\ pc # "dispatch"

Terminated == pc \in {"done", "aborted"}

\* C35: a run makes at most max_tool_rounds + 3 LLM calls (the rounds up to the
\* cap, the two fabrication retries and one last call) and, when every stream
\* and every tool execution returns, it ends.
C35_TerminatesWithinCallBound ==
    /\ [](Len(llmCalls) <= max_tool_rounds + 3)
    /\ <>Terminated

\* a run that ended after max_tool_rounds + 3 calls: two fabrication retries,
\* a full tool round and the closing call
C35_Witness ==
    /\ Terminated
    /\ Len(llmCalls) = max_tool_rounds + 3
    /\ fabrication_retries = MaxFabRetries
    /\ total_tool_rounds = max_tool_rounds

\* the LLM call c is the one made right after a fabrication was detected: the
\* notice of the detection is the last event before it
FollowsFabrication(c) ==
    /\ llmCalls[c].at > 0
    /\ events[llmCalls[c].at].type = "content"
    /\ events[llmCalls[c].at].info = "fab_notice"

\* C32: tool_choice is "required" exactly on the LLM call that immediately
\* follows a detected fabrication; every other call of the run, also one made
\* after a later tool round, uses "auto".
C32_RequiredOnlyAfterFabrication ==
    \A c \in 1..Len(llmCalls) :
        (llmCalls[c].tool_choice = "required") <=> FollowsFabrication(c)

\* ==========================================================================
\* Part 2: tool registry and executor
\* ==========================================================================
\* ------------------------------------------------------------------ bounds
\* Longest command string handed to is_readonly_command, in atoms.
MaxCmdLen == 3

\* A command string is a sequence of atoms: a blank, one punctuation character,
\* or one whole word.  Adjacent word atoms form one longer word.
WordAtoms == {"ls", "git", "log", "push", "tee", "mkfs"}
\* ("bq" is the backquote character)
PunctAtoms == {" ", ">", "&", ";", "|", "bq", "$", "(", "/"}
CmdAtoms == WordAtoms \cup PunctAtoms
CommandStrings == UNION {[1..n -> CmdAtoms] : n \in 0..MaxCmdLen}

\* ------------------------------------------------------ string operations
RECURSIVE LStrip(_)
LStrip(s) == IF s # <<>> /\ Head(s) = " " THEN LStrip(Tail(s)) ELSE s
RECURSIVE RStrip(_)
RStrip(s) == IF s # <<>> /\ s[Len(s)] = " " THEN RStrip(SubSeq(s, 1, Len(s) - 1)) ELSE s
\* str.strip()
Strip(s) == RStrip(LStrip(s))

\* the substring test, p in s
Contains(s, p) == \E i \in 1..(Len(s) - Len(p) + 1) : SubSeq(s, i, i + Len(p) - 1) = p

RECURSIVE SplitOn(_, _)
\* s.split(sep): the pieces between the separators, empty pieces kept
SplitOn(s, sep) ==
    IF \A i \in 1..Len(s) : s[i] # sep
    THEN <<s>>
    ELSE LET i == CHOOSE k \in 1..Len(s) : s[k] = sep /\ \A j \in 1..(k - 1) : s[j] # sep
         IN  <<SubSeq(s, 1, i - 1)>> \o SplitOn(SubSeq(s, i + 1, Len(s)), sep)

NonEmpty(x) == x # <<>>

\* s.split(): the blank-separated words
Words(s) == SelectSeq(SplitOn(s, " "), NonEmpty)

\* os.path.basename
Basename(w) ==
    IF \E i \in 1..Len(w) : w[i] = "/"
    THEN LET i == CHOOSE k \in 1..Len(w) : w[k] = "/" /\ \A j \in (k + 1)..Len(w) : w[j] # "/"
         IN  SubSeq(w, i + 1, Len(w))
    ELSE w

\* the word a sequence of atoms spells, when it is a single atom; a longer
\* sequence spells a string that is in none of the tables below
AsWord(w) == IF Len(w) = 1 THEN w[1] ELSE "?"

\* ------------------------------------------------------------ commands.py
\* READONLY_COMMANDS entries whose value is None: every argument allowed
ReadonlyAnyArgs ==
    {"ls", "cat", "head", "tail", "find", "grep", "wc", "file", "diff", "pwd",
     "echo", "which", "du", "stat", "realpath", "dirname", "basename", "env",
     "uname", "whoami", "date", "tree", "less", "more", "sort", "uniq", "awk",
     "sed", "cut", "tr", "xargs"}

\* READONLY_COMMANDS entries with a set of allowed sub-commands
ReadonlyRestricted == {"git", "python3", "python", "node", "docker", "docker-compose"}

ReadonlySubs(cmd) ==
    CASE cmd = "git" -> {"log", "diff", "show", "status", "branch", "tag", "describe",
                         "rev-parse", "ls-files", "blame", "shortlog", "remote", "stash"}
      [] cmd \in {"python3", "python"} -> {"-c", "--version", "-V"}
      [] cmd = "node" -> {"-e", "--version", "-v"}
      [] cmd = "docker" -> {"ps", "images", "logs", "inspect", "stats", "top", "version", "info"}
      [] cmd = "docker-compose" -> {"ps", "logs", "config", "images"}
      [] OTHER -> {}

LETHAL_PATTERNS ==
    << <<"rm", " ", "-rf", " ", "/">>,
       <<"mkfs">>,
       <<">", " ", "/", "dev", "/">>,
       <<":", "(", ")", "{", " ", ":", "|", ":", "&", " ", "}", ";", ":">>,
       <<"shutdown">>,
       <<"reboot">> >>

\* the first lethal pattern occurring in the command, 0 when there is none
FirstLethal(command) ==
    IF \E k \in 1..Len(LETHAL_PATTERNS) : Contains(command, LETHAL_PATTERNS[k])
    THEN CHOOSE k \in 1..Len(LETHAL_PATTERNS) :
            /\ Contains(command, LETHAL_PATTERNS[k])
            /\ \A j \in 1..(k - 1) : ~Contains(command, LETHAL_PATTERNS[j])
    ELSE 0

\* the regular expression search for a pipe, blanks, tee, a word boundary
PipesIntoTee(s) ==
    \E i \in 1..Len(s), j \in 1..Len(s) :
        /\ i < j
        /\ s[i] = "|"
        /\ s[j] = "tee"
        /\ \A k \in (i + 1)..(j - 1) : s[k] = " "
        /\ (j = Len(s) \/ s[j + 1] \notin WordAtoms)

\* the body of the loop over pipe_segments: TRUE for continue, FALSE for return False
SegmentAllowed(seg) ==
    LET parts == Words(seg)
        cmd == AsWord(Basename(parts[1]))
    IN  IF parts = <<>> THEN FALSE
        ELSE IF cmd \in ReadonlyAnyArgs THEN TRUE
        ELSE IF cmd \in ReadonlyRestricted
             THEN Len(parts) < 2 \/ AsWord(parts[2]) \in ReadonlySubs(cmd)
             ELSE FALSE

PipeSegments(stripped) ==
    LET pieces == SplitOn(stripped, "|")
    IN  SelectSeq([k \in 1..Len(pieces) |-> Strip(pieces[k])], NonEmpty)

\* the write-operator checks: > or >>, && or ;, a pipe into tee, a backquote or $(
HasWriteOperator_NoSemicolon(stripped) ==
    \/ Contains(stripped, <<">">>)
    \/ Contains(stripped, <<"&", "&">>)
    \/ PipesIntoTee(stripped)
    \/ Contains(stripped, <<"bq">>)
    \/ Contains(stripped, <<"$", "(">>)

HasWriteOperator(stripped) ==
    \/ Contains(stripped, <<">">>)
    \/ Contains(stripped, <<"&", "&">>)
    \/ Contains(stripped, <<";">>)
    \/ PipesIntoTee(stripped)
    \/ Contains(stripped, <<"bq">>)
    \/ Contains(stripped, <<"$", "(">>)

is_readonly_command(command_str) ==
    LET stripped == Strip(command_str)
        pipe_segments == PipeSegments(stripped)
    IN  /\ stripped # <<>>
        /\ ~HasWriteOperator(stripped)
        /\ \A k \in 1..Len(pipe_segments) : SegmentAllowed(pipe_segments[k])

\* what became of the subprocess once the shell was given the command
ShellOutcomes == {"output", "timeout", "failed"}

\* the value returned by a tool function and the commands it gave to the shell
Ran(result, shell) == [result |-> result, shell |-> shell]

tool_run_command(command_arg, out) ==
    LET command == Strip(command_arg)
    IN  IF command = <<>> THEN Ran("empty_command", <<>>)
        ELSE IF FirstLethal(command) # 0 THEN Ran("lethal_blocked", <<>>)
        ELSE IF ~is_readonly_command(command) THEN Ran("not_whitelisted", <<>>)
        ELSE Ran(out, <<command>>)

tool_run_command_unrestricted(command_arg, out) ==
    LET command == Strip(command_arg)
    IN  IF command = <<>> THEN Ran("empty_command", <<>>)
        ELSE IF FirstLethal(command) # 0 THEN Ran("lethal_blocked", <<>>)
        ELSE Ran(out, <<command>>)

\* ------------------------------------------------------------- registry.py
TOOL_PERMISSIONS ==
    {"ask_user", "read_source", "read_config", "search", "tree",
     "execute_readonly_command", "execute_command"}

DEFAULT_PERMISSIONS == TOOL_PERMISSIONS \ {"execute_command"}

\* names of BUILTIN_TOOL_DEFINITIONS, in order
BUILTIN_TOOL_DEFINITIONS ==
    <<"read_file", "search_text", "list_directory", "get_file_tree", "ask_user",
      "run_command">>

\* TOOL_PERMISSION_MAP.get(name): the empty set stands for None
TOOL_PERMISSION_MAP(name) ==
    CASE name = "ask_user" -> {"ask_user"}
      [] name = "read_file" -> {"read_source"}
      [] name = "search_text" -> {"search"}
      [] name \in {"list_directory", "get_file_tree"} -> {"tree"}
      [] name = "run_command" -> {"execute_readonly_command"}
      [] OTHER -> {}

\* _TOOL_EXECUTORS
ToolExecutors ==
    {"read_file", "search_text", "list_directory", "get_file_tree", "ask_user",
     "run_command"}

\* the caller's `permissions` argument: None, or a set of keys
NoPermissions == [given |-> FALSE, keys |-> {}]
GivenPermissions(keys) == [given |-> TRUE, keys |-> keys]

\* keys the modelled callers may hold
CallerPermissionKeys == {"read_source", "execute_readonly_command", "execute_command", "mcp_gh"}
CallerPermissions ==
    {NoPermissions} \cup {GivenPermissions(keys) : keys \in SUBSET CallerPermissionKeys}

\* permissions or DEFAULT_PERMISSIONS: None and the empty set are both falsy
PermsOrDefault(permissions) ==
    IF permissions.given /\ permissions.keys # {} THEN permissions.keys
    ELSE DEFAULT_PERMISSIONS

\* MCPExecutionAdapter.get_mcp_tool_definitions, called with a set (never None):
\* the tools of the enabled server "gh", whose one discovered tool is "t"
get_mcp_tool_definitions(perms) ==
    IF "mcp_gh" \in perms THEN <<"mcp_gh__t">> ELSE <<>>

IsOffered(name, perms) ==
    TOOL_PERMISSION_MAP(name) # {} /\ TOOL_PERMISSION_MAP(name) \subseteq perms

\* the hard-coded definitions (no definitions cached from the database)
get_tool_definitions(permissions) ==
    LET perms == PermsOrDefault(permissions)
        Offered(name) == IsOffered(name, perms)
    IN  SelectSeq(BUILTIN_TOOL_DEFINITIONS, Offered) \o get_mcp_tool_definitions(perms)

\* ------------------------------------------------------------- executor.py
\* command_approval_fn: None, or a function whose answer to this command is
\* {approved, scope}
NoApprovalFn == [present |-> FALSE, approved |-> FALSE, scope |-> ""]
Scopes == {"once", "rule", ""}
ApprovalFns ==
    {NoApprovalFn} \cup
    {[present |-> TRUE, approved |-> a, scope |-> sc] : a \in BOOLEAN, sc \in Scopes}

\* scope_label: "" when the scope is none of the five known ones
ScopeLabel(scope) ==
    IF scope \in {"once", "session", "project", "permanent", "rule"} THEN scope ELSE ""

\* what execute_tool returns: the text by kind, the authorisation prefix put
\* before it, and the commands given to the shell on the way
Returned(text, scope_label, shell) ==
    [text |-> text, scope_label |-> scope_label, shell |-> shell]

\* approval.get("approved")
ApprovalGranted_Always(approval) == TRUE

ApprovalGranted(approval) == approval.approved

_handle_run_command(command, perms, command_approval_fn, out) ==
    IF is_readonly_command(command)
    THEN LET r == tool_run_command(command, out)
         IN  Returned(r.result, "", r.shell)
    ELSE IF "execute_command" \notin perms
    THEN Returned("no_execute_command", "", <<>>)
    ELSE IF command_approval_fn.present
    THEN IF ApprovalGranted(command_approval_fn)
         THEN LET r == tool_run_command_unrestricted(command, out)
              IN  Returned(r.result,
                           IF r.result = "timeout" \/ r.result = "failed"
                           THEN "" ELSE ScopeLabel(command_approval_fn.scope),
                           r.shell)
         ELSE Returned("user_denied", "", <<>>)
    ELSE LET r == tool_run_command_unrestricted(command, out)
         IN  Returned(r.result, "", r.shell)

execute_tool(name, command, permissions, command_approval_fn, out) ==
    IF IsMcpTool(name) THEN Returned("mcp_routed", "", <<>>)
    ELSE LET perms == PermsOrDefault(permissions)
             required_perm == TOOL_PERMISSION_MAP(name)
         IN  IF required_perm # {} /\ ~(required_perm \subseteq perms)
             THEN Returned("disabled", "", <<>>)
             ELSE IF name = "run_command"
             THEN _handle_run_command(command, perms, command_approval_fn, out)
             ELSE IF name \notin ToolExecutors
             THEN Returned("unknown_tool", "", <<>>)
             ELSE Returned("tool_output", "", <<>>)

\* ------------------------------------------------------------------ inputs
ToolNames == {"read_file", "ask_user", "run_command", "mcp_gh__t", "no_such_tool"}

Commands ==
    { <<>>,
      <<"ls">>,
      <<" ", "git", " ", "log">>,
      <<"ls", " ", "mkfs">>,
      <<"push">>,
      <<"mkfs">>,
      <<"ls", ">", "log">> }

NoCommand == <<>>

ToolCall(name, command, permissions, command_approval_fn) ==
    [name |-> name, command |-> command, permissions |-> permissions,
     command_approval_fn |-> command_approval_fn]

NoToolCall == ToolCall("", NoCommand, NoPermissions, NoApprovalFn)
NoToolResult == [text |-> "", scope_label |-> ""]

ToolsInit ==
    /\ tool_op = "idle"
    /\ tool_call = NoToolCall
    /\ tool_result = NoToolResult
    /\ shell_invocations = <<>>
    /\ tool_defs = <<>>

\* ----------------------------------------------------------------- actions
GetToolDefinitions ==
    /\ tool_op = "idle"
    /\ \E permissions \in CallerPermissions :
         /\ tool_call' = ToolCall("", NoCommand, permissions, NoApprovalFn)
         /\ tool_defs' = get_tool_definitions(permissions)
    /\ tool_op' = "get_tool_definitions"
    /\ UNCHANGED <<notToolVars, tool_result, shell_invocations>>

ExecuteTool ==
    /\ tool_op = "idle"
    /\ \E name \in ToolNames, command \in Commands, permissions \in CallerPermissions,
          command_approval_fn \in ApprovalFns, out \in ShellOutcomes :
         /\ name # "run_command" => (command = NoCommand /\ command_approval_fn = NoApprovalFn)
         /\ LET r == execute_tool(name, command, permissions, command_approval_fn, out)
            IN  /\ tool_call' = ToolCall(name, command, permissions, command_approval_fn)
                /\ tool_result' = [text |-> r.text, scope_label |-> r.scope_label]
                /\ shell_invocations' = r.shell
    /\ tool_op' = "execute_tool"
    /\ UNCHANGED <<notToolVars, tool_defs>>

IsReadonlyCommand ==
    /\ tool_op = "idle"
    /\ \E command_str \in CommandStrings :
         /\ tool_call' = ToolCall("", command_str, NoPermissions, NoApprovalFn)
         /\ tool_result' = [text |-> IF is_readonly_command(command_str) THEN "True" ELSE "False",
                            scope_label |-> ""]
    /\ tool_op' = "is_readonly_command"
    /\ UNCHANGED <<notToolVars, shell_invocations, tool_defs>>

NextTools ==
    \/ GetToolDefinitions
    \/ ExecuteTool
    \/ IsReadonlyCommand

\* ------------------------------------------------------ claims on part 2
\* a run_command call whose command is not read-only has returned
IsWriteRunCommand ==
    /\ tool_op = "execute_tool"
    /\ tool_call.name = "run_command"
    /\ ~is_readonly_command(tool_call.command)

\* the caller holds execute_command and the approval function, when one was
\* supplied, approved the command
MayExecute ==
    /\ "execute_command" \in tool_call.permissions.keys
    /\ tool_call.command_approval_fn.present => tool_call.command_approval_fn.approved

DenialTexts == {"disabled", "no_execute_command", "user_denied"}

\* C11: a run_command whose command is not read-only reaches the shell only if
\* the caller holds execute_command and the supplied approval function (if any)
\* approved it; otherwise the shell is not invoked and the result is a denial.
C11_WriteCommandNeedsPermissionAndApproval ==
    IsWriteRunCommand =>
        /\ shell_invocations # <<>> => MayExecute
        /\ ~MayExecute => (shell_invocations = <<>> /\ tool_result.text \in DenialTexts)

\* an approved write command was handed to the shell
C11_Witness ==
    /\ IsWriteRunCommand
    /\ tool_call.command_approval_fn.present
    /\ MayExecute
    /\ shell_invocations = <<Strip(tool_call.command)>>
    /\ tool_result.text = "output"

\* the shell-writer operators: > >> && ; |tee backquote $(
ShellWriters ==
    { <<">">>, <<">", ">">>, <<"&", "&">>, <<";">>, <<"|", "tee">>, <<"bq">>, <<"$", "(">> }

ContainsLethal(s) == \E k \in 1..Len(LETHAL_PATTERNS) : Contains(s, LETHAL_PATTERNS[k])

ContainsShellWriter(s) == \E w \in ShellWriters : Contains(s, w)

\* C12 as stated: a command string that is_readonly_command accepts contains
\* no lethal pattern and no shell-writer operator.
C12_ReadonlyHasNoLethalNoWriter ==
    (tool_op = "is_readonly_command" /\ tool_result.text = "True") =>
        (~ContainsLethal(tool_call.command) /\ ~ContainsShellWriter(tool_call.command))

\* some pipe of s is followed by the command word tee
PipesToTeeCommand(s) ==
    \E i \in 1..Len(s) :
        /\ s[i] = "|"
        /\ LET words == Words(SplitOn(SubSeq(s, i + 1, Len(s)), "|")[1])
           IN  words # <<>> /\ words[1] = <<"tee">>

\* C12 as amended: a command string that is_readonly_command accepts contains
\* none of > >> && ; backquote $( and no pipe into the tee command; lethal
\* patterns are screened by run_command, not by the classifier: no command that
\* execute_tool hands to the shell contains one.
C12_ReadonlyHasNoWriter ==
    /\ (tool_op = "is_readonly_command" /\ tool_result.text = "True") =>
          /\ \A w \in ShellWriters \ {<<"|", "tee">>} : ~Contains(tool_call.command, w)
          /\ ~PipesToTeeCommand(tool_call.command)
    /\ \A k \in 1..Len(shell_invocations) : ~ContainsLethal(shell_invocations[k])

\* the classifier accepted a pipeline
C12_Witness ==
    /\ tool_op = "is_readonly_command"
    /\ tool_result.text = "True"
    /\ Len(PipeSegments(Strip(tool_call.command))) = 2

BuiltinNames == {BUILTIN_TOOL_DEFINITIONS[k] : k \in 1..Len(BUILTIN_TOOL_DEFINITIONS)}

\* C13: for every caller permission set P, the empty one included, a built-in
\* tool is listed, and is run by execute_tool, only if its required permissions
\* are a subset of P.
C13_BuiltinNeedsCallerPermission ==
    /\ (tool_op = "get_tool_definitions" /\ tool_call.permissions.given) =>
          \A k \in 1..Len(tool_defs) :
              tool_defs[k] \in BuiltinNames =>
                  TOOL_PERMISSION_MAP(tool_defs[k]) \subseteq tool_call.permissions.keys
    /\ (/\ tool_op = "execute_tool"
        /\ tool_call.permissions.given
        /\ tool_call.name \in BuiltinNames
        /\ tool_result.text # "disabled") =>
          TOOL_PERMISSION_MAP(tool_call.name) \subseteq tool_call.permissions.keys

\* ==========================================================================
\* Part 3: the MCP execution adapter, its permission bridge, rate limiter and
\* audit log (services/mcp/execution_adapter.py, permission_bridge.py, audit.py)
\* ==========================================================================
\* ------------------------------------------------------------------ bounds
\* Number of _execute_mcp calls made in one behaviour.
MaxMcpCalls == 3
\* check_rate_limit's max_calls_per_minute of the modelled deployment (the
\* program default is 60).
max_calls_per_minute == 2
\* Last clock reading, in seconds.
MaxClock == 90

\* --------------------------------------------------------- program constants
\* window_seconds passed by check_rate_limit
window_seconds == 60
\* log_mcp_call keeps result_text[:500]
PreviewLen == 500

\* seconds the clock may advance by between two calls
ClockSteps == {30, 60}

\* ---------------------------------------------------------------- registry
\* MCPServerRegistry._servers: "github" and "fs" are enabled, "off" is disabled,
\* any other slug is not registered
RegisteredSlugs == {"github", "fs", "off"}
EnabledSlugs == {"github", "fs"}

\* server_config.permission_map as tool -> key; "" where the tool has no entry.
\* github maps tool "w" to the key "gh_write" and tool "e" to an empty key.
HasMapEntry(slug, tool) == slug = "github" /\ tool \in {"w", "e"}
MappedKey(slug, tool) == IF slug = "github" /\ tool = "w" THEN "gh_write" ELSE ""

\* get_mcp_server_permission_key
ServerKey(slug) ==
    CASE slug = "github" -> "mcp_github"
      [] slug = "fs" -> "mcp_fs"
      [] slug = "off" -> "mcp_off"
      [] OTHER -> "mcp_unregistered"

\* mapped_key is tested for truth before it is looked up
MappedKeyDenies_IgnoresMap(slug, tool, perms_set) == FALSE

MappedKeyDenies(slug, tool, perms_set) ==
    /\ HasMapEntry(slug, tool)
    /\ MappedKey(slug, tool) # ""
    /\ MappedKey(slug, tool) \notin perms_set

check_mcp_permission(slug, tool, perms_set) ==
    IF ServerKey(slug) \notin perms_set THEN FALSE
    ELSE IF MappedKeyDenies(slug, tool, perms_set) THEN FALSE
    ELSE TRUE

\* ------------------------------------------------------------------ limiter
ProjectIds == {"None", "p1"}

\* f"mcp:{server_slug}:{project_id or 'global'}"
RateKey_ServerOnly(slug, project_id) == <<slug, "global">>

RateKey(slug, project_id) ==
    <<slug, IF project_id = "None" THEN "global" ELSE project_id>>

RateKeys == EnabledSlugs \X {"global", "p1"}

\* the timestamps of a window that are still inside it at time t
Pruned(window, t) ==
    LET cutoff == t - window_seconds
        Fresh(ts) == ts > cutoff
    IN  SelectSeq(window, Fresh)

\* _RateLimiter.check_and_record: the verdict and the window it leaves
check_and_record(window, t) ==
    LET pruned == Pruned(window, t)
    IN  IF Len(pruned) >= max_calls_per_minute
        THEN [allowed |-> FALSE, window |-> pruned]
        ELSE [allowed |-> TRUE, window |-> Append(pruned, t)]

\* -------------------------------------------------------------------- audit
Min(a, b) == IF a < b THEN a ELSE b

\* the MCPAuditLog row log_mcp_call commits
AuditRow(slug, tool, result_len, success, project_id) ==
    [server_slug |-> slug, tool_name |-> tool, result_preview |-> Min(result_len, PreviewLen),
     success |-> success, project_id |-> project_id]

NoAuditRow == AuditRow("", "", 0, FALSE, "None")

\* ------------------------------------------------------------------ inputs
\* the calls made: server, tool, permissions and project
McpCall(slug, tool, permissions, project_id) ==
    [server_slug |-> slug, mcp_tool_name |-> tool, permissions |-> permissions,
     project_id |-> project_id]

McpCalls ==
    { McpCall("github", "t", NoPermissions, "None"),
      McpCall("github", "t", GivenPermissions({}), "None"),
      McpCall("github", "t", GivenPermissions({"mcp_github"}), "None"),
      McpCall("github", "t", GivenPermissions({"mcp_github"}), "p1"),
      McpCall("github", "w", GivenPermissions({"mcp_github"}), "p1"),
      McpCall("github", "w", GivenPermissions({"mcp_github", "gh_write"}), "None"),
      McpCall("github", "w", GivenPermissions({"gh_write"}), "None"),
      McpCall("github", "e", GivenPermissions({"mcp_github"}), "None"),
      McpCall("fs", "t", GivenPermissions({"mcp_fs"}), "None"),
      McpCall("fs", "t", GivenPermissions({"mcp_github"}), "p1"),
      McpCall("off", "t", GivenPermissions({"mcp_off"}), "None"),
      McpCall("nope", "t", GivenPermissions({"mcp_unregistered"}), "None") }

\* what the collaborators do once the checks are passed: credential resolution,
\* get_or_connect, conn.call_tool (a result of `len` characters, isError or not;
\* {"error": ...} when the request got no response; an exception; the
\* cancellation of the pending request), and the github fallback
Env(creds, conn, call, len, fallback) ==
    [creds |-> creds, conn |-> conn, call |-> call, len |-> len, fallback |-> fallback]

McpEnvs ==
    { Env("raise", "None", "none", 0, "None"),
      Env("ok", "None", "none", 0, "None"),
      Env("ok", "None", "none", 0, "text"),
      Env("ok", "conn", "result", 10, "None"),
      Env("ok", "conn", "result", 501, "None"),
      Env("ok", "conn", "isError", 10, "None"),
      Env("ok", "conn", "no_response", 30, "None"),
      Env("ok", "conn", "raise", 0, "None"),
      Env("ok", "conn", "raise", 0, "text"),
      Env("ok", "conn", "cancelled", 0, "None") }

\* _try_fallback: only the slug "github" has one
Fallback(slug, env) == IF slug = "github" THEN env.fallback ELSE "None"

\* what _execute_mcp returned (or raised), whether get_or_connect was called,
\* whether the tool call was sent to the server, and the time of the call
McpResult(text, contacted, reached, at) ==
    [text |-> text, contacted |-> contacted, reached |-> reached, at |-> at]

NoMcpCall == McpCall("", "", NoPermissions, "None")
NoMcpResult == McpResult("", FALSE, FALSE, 0)

AdapterInit ==
    /\ now = 0
    /\ windows = [k \in RateKeys |-> <<>>]
    /\ limiter_passed = <<>>
    /\ audit_rows = 0
    /\ last_audit_row = NoAuditRow
    /\ mcp_call = NoMcpCall
    /\ mcp_result = NoMcpResult
    /\ calls_made = 0

\* ----------------------------------------------------------------- actions
\* steps 4 to 6 of _execute_mcp, taken once the rate limiter has let the call
\* pass: the result, and the audit rows written on the way
Outcome(result, rows) == [result |-> result, rows |-> rows]

AfterLimiter(call, env, at) ==
    LET slug == call.server_slug
        tool == call.mcp_tool_name
        pid == call.project_id
        Row(len, success) == <<AuditRow(slug, tool, len, success, pid)>>
    IN  IF env.creds = "raise"
        THEN Outcome(McpResult("credentials_failed", FALSE, FALSE, at), <<>>)
        ELSE IF env.conn = "None"
        THEN Outcome(McpResult(IF Fallback(slug, env) # "None"
                               THEN "unavailable_used_fallback" ELSE "connect_failed",
                               TRUE, FALSE, at),
                     Row(0, FALSE))
        ELSE CASE env.call = "result" ->
                    Outcome(McpResult("result_text", TRUE, TRUE, at), Row(env.len, TRUE))
               [] env.call = "isError" ->
                    Outcome(McpResult("tool_failed_text", TRUE, TRUE, at), Row(env.len, FALSE))
               [] env.call = "no_response" ->
                    Outcome(McpResult("tool_error_text", TRUE, TRUE, at), Row(env.len, FALSE))
               [] env.call = "raise" ->
                    Outcome(McpResult(IF Fallback(slug, env) # "None"
                                      THEN "failed_used_fallback" ELSE "call_failed",
                                      TRUE, TRUE, at),
                            Row(0, FALSE))
               [] env.call = "cancelled" ->
                    Outcome(McpResult("CancelledError", TRUE, TRUE, at), <<>>)

\* MCPExecutionAdapter._execute_mcp, one call from entry to return
ExecuteMcp ==
    /\ calls_made < MaxMcpCalls
    /\ calls_made' = calls_made + 1
    /\ \E call \in McpCalls :
         LET slug == call.server_slug
             key == RateKey(slug, call.project_id)
         IN  /\ mcp_call' = call
             /\ IF slug \notin RegisteredSlugs
                THEN /\ mcp_result' = McpResult("not_registered", FALSE, FALSE, now)
                     /\ UNCHANGED <<windows, limiter_passed, audit_rows, last_audit_row>>
                ELSE IF slug \notin EnabledSlugs
                THEN /\ mcp_result' = McpResult("disabled", FALSE, FALSE, now)
                     /\ UNCHANGED <<windows, limiter_passed, audit_rows, last_audit_row>>
                ELSE IF /\ call.permissions.given
                        /\ ~check_mcp_permission(slug, call.mcp_tool_name, call.permissions.keys)
                THEN /\ mcp_result' = McpResult("not_authorized", FALSE, FALSE, now)
                     /\ UNCHANGED <<windows, limiter_passed, audit_rows, last_audit_row>>
                ELSE LET verdict == check_and_record(windows[key], now)
                     IN  /\ windows' = [windows EXCEPT ![key] = verdict.window]
                         /\ IF ~verdict.allowed
                            THEN /\ mcp_result' = McpResult("rate_limited", FALSE, FALSE, now)
                                 /\ UNCHANGED <<limiter_passed, audit_rows, last_audit_row>>
                            ELSE \E env \in McpEnvs :
                                   LET r == AfterLimiter(call, env, now)
                                   IN  /\ limiter_passed' =
                                            Append(limiter_passed,
                                                   [server_slug |-> slug,
                                                    project_id |-> call.project_id,
                                                    at |-> now])
                                       /\ mcp_result' = r.result
                                       /\ audit_rows' = audit_rows + Len(r.rows)
                                       /\ last_audit_row' =
                                            IF r.rows = <<>> THEN last_audit_row
                                            ELSE r.rows[Len(r.rows)]
    /\ UNCHANGED <<notAdapterVars, now>>

\* time passes between two calls
Tick ==
    /\ \E d \in ClockSteps :
         /\ now + d <= MaxClock
         /\ now' = now + d
    /\ UNCHANGED <<notAdapterVars, windows, limiter_passed, audit_rows, last_audit_row,
                   mcp_call, mcp_result, calls_made>>

NextAdapter ==
    \/ ExecuteMcp
    \/ Tick

\* ------------------------------------------------------------------ claims
\* a call has been handled and mcp_result is what it returned
McpCallHandled == calls_made > 0

\* the permission rule: mcp_<slug> is among the caller's permissions and the
\* server's permission_map has no entry for the tool or the mapped key is among
\* them; a caller that passes no permissions has none
Permitted(call) ==
    LET held == IF call.permissions.given THEN call.permissions.keys ELSE {}
    IN  /\ ServerKey(call.server_slug) \in held
        /\ \/ ~HasMapEntry(call.server_slug, call.mcp_tool_name)
           \/ MappedKey(call.server_slug, call.mcp_tool_name) \in held

\* C14: a call made through the adapter reaches the server only if mcp_<slug>
\* is in the caller's permissions and the tool has no permission_map entry or
\* its mapped key is in the caller's permissions (the half of the claimed
\* equivalence that protects the server).
C14_ReachesServerOnlyIfPermitted ==
    McpCallHandled /\ mcp_result.reached => Permitted(mcp_call)

\* the key the limiter is specified to count under
SpecifiedKey(slug, project_id) ==
    <<slug, IF project_id = "None" THEN "global" ELSE project_id>>

\* number of calls under the key of (slug, project_id) that passed the limiter
\* in the window_seconds ending at time t
PassedInWindow(slug, project_id, t) ==
    Cardinality({ i \in DOMAIN limiter_passed :
                    /\ SpecifiedKey(limiter_passed[i].server_slug,
                                    limiter_passed[i].project_id)
                         = SpecifiedKey(slug, project_id)
                    /\ limiter_passed[i].at > t - window_seconds
                    /\ limiter_passed[i].at <= t })

\* C15: per key (server_slug, project_id or "global") at most
\* max_calls_per_minute calls pass the limiter in any window of window_seconds;
\* a call is rejected before the server is contacted, and only when its own
\* key has used up the window (calls under other keys do not count).
C15_SlidingWindowPerKey ==
    /\ \A i \in DOMAIN limiter_passed :
         PassedInWindow(limiter_passed[i].server_slug, limiter_passed[i].project_id,
                        limiter_passed[i].at) <= max_calls_per_minute
    /\ McpCallHandled /\ mcp_result.text = "rate_limited" =>
         /\ ~mcp_result.contacted
         /\ ~mcp_result.reached
         /\ PassedInWindow(mcp_call.server_slug, mcp_call.project_id, mcp_result.at)
              >= max_calls_per_minute

\* a call was rejected by the limiter: the calls that had used up its key's
\* window passed at two different times, both less than window_seconds ago
C15_Witness ==
    /\ McpCallHandled
    /\ mcp_result.text = "rate_limited"
    /\ Len(limiter_passed) = max_calls_per_minute
    /\ limiter_passed[1].at < limiter_passed[Len(limiter_passed)].at
    /\ limiter_passed[1].at > mcp_result.at - window_seconds

\* C16: every call handled by the adapter has persisted an audit record, with
\* a result_preview of at most 500 characters, by the time it returns,
\* whatever the outcome.
C16_EveryCallAudited ==
    /\ audit_rows = calls_made
    /\ last_audit_row.result_preview <= PreviewLen

\* ==========================================================================
\* Part 4: the MCP connection pool under concurrent calls and a config update
\* ==========================================================================
\* ------------------------------------------------------------------ bounds
\* tool calls started in one behaviour
MaxManagerCalls == 3
\* MCPClientConnection objects created in one behaviour
MaxConnections == 3
\* configuration updates of one server
MaxVersion == 1

\* the asyncio tasks running _execute_mcp, and the update_server request
Tasks == {"t1", "t2"}
NoTask == "none"
UpdateRequest == "update_server"
ManagerSlugs == {"github", "fs"}
NoSlug == ""
NoConn == 0

\* MCPClientConnection(config, env_override) after Popen has started the
\* subprocess: not yet connected
Connection(slug, config) ==
    [slug |-> slug, config |-> config, process |-> "running", connected |-> FALSE]

\* MCPClientConnection.is_connected
is_connected(c) ==
    /\ c # NoConn
    /\ conn_objects[c].process = "running"
    /\ conn_objects[c].connected

\* MCPClientConnection.disconnect, once the subprocess has been waited for
Disconnected(objects, c) ==
    [objects EXCEPT ![c].connected = FALSE, ![c].process = "exited"]

\* async with self._lock: the lock can be taken
LockFree_Unlocked == TRUE

LockFree == manager_lock = NoTask

\* the call conn.call_tool made: the server, whether the request was written to
\* a running subprocess, the config version the connection was started with and
\* the version of the last update completed before the call
Call(slug, served, config, completed) ==
    [slug |-> slug, served |-> served, config |-> config, completed |-> completed]

NoCall == Call(NoSlug, FALSE, 0, 0)

ManagerInit ==
    /\ servers = [s \in ManagerSlugs |-> 0]
    /\ connections = [s \in ManagerSlugs |-> NoConn]
    /\ conn_objects = <<>>
    /\ manager_lock = NoTask
    /\ task_pc = [t \in Tasks |-> "idle"]
    /\ task_slug = [t \in Tasks |-> NoSlug]
    /\ task_config = [t \in Tasks |-> 0]
    /\ task_conn = [t \in Tasks |-> NoConn]
    /\ update_pc = "idle"
    /\ update_slug = NoSlug
    /\ update_conn = NoConn
    /\ completed_version = [s \in ManagerSlugs |-> 0]
    /\ last_call = NoCall
    /\ manager_calls = 0

updateVars == <<update_pc, update_slug, update_conn, completed_version>>

\* ----------------------------------------------------------------- actions
\* _execute_mcp step 1: registry.get_server(server_slug); the task then awaits
\* resolve_env_for_server
GetServer(t) ==
    /\ task_pc[t] = "idle"
    /\ manager_calls < MaxManagerCalls
    /\ manager_calls' = manager_calls + 1
    /\ \E s \in ManagerSlugs :
         /\ task_slug' = [task_slug EXCEPT ![t] = s]
         /\ task_config' = [task_config EXCEPT ![t] = servers[s]]
    /\ task_pc' = [task_pc EXCEPT ![t] = "resolve_env"]
    /\ task_conn' = [task_conn EXCEPT ![t] = NoConn]
    /\ UNCHANGED <<notManagerVars, servers, connections, conn_objects, manager_lock,
                   updateVars, last_call>>

\* _execute_mcp step 4 returns and step 5 calls get_or_connect, which waits
\* for the manager lock
ResolveEnv(t) ==
    /\ task_pc[t] = "resolve_env"
    /\ task_pc' = [task_pc EXCEPT ![t] = "get_or_connect"]
    /\ UNCHANGED <<notManagerVars, servers, connections, conn_objects, manager_lock,
                   task_slug, task_config, task_conn, updateVars, last_call,
                   manager_calls>>

\* get_or_connect takes the lock: a connected connection is returned at once;
\* otherwise the stale connection is disconnected and a new one is created
\* from the caller's config and its subprocess started
GetOrConnect(t) ==
    LET slug == task_slug[t]
        conn == connections[slug]
        cleaned == IF conn = NoConn THEN conn_objects
                   ELSE Disconnected(conn_objects, conn)
    IN  /\ task_pc[t] = "get_or_connect"
        /\ LockFree
        /\ IF is_connected(conn)
           THEN /\ task_conn' = [task_conn EXCEPT ![t] = conn]
                /\ task_pc' = [task_pc EXCEPT ![t] = "call_tool"]
                /\ UNCHANGED <<conn_objects, manager_lock>>
           ELSE /\ Len(conn_objects) < MaxConnections
                /\ manager_lock' = t
                /\ conn_objects' = Append(cleaned, Connection(slug, task_config[t]))
                /\ task_conn' = [task_conn EXCEPT ![t] = Len(conn_objects) + 1]
                /\ task_pc' = [task_pc EXCEPT ![t] = "connecting"]
        /\ UNCHANGED <<notManagerVars, servers, connections, task_slug, task_config,
                       updateVars, last_call, manager_calls>>

\* conn.connect() returns: the initialize handshake succeeded and the
\* connection is registered, or it failed, the subprocess was stopped and
\* get_or_connect returns None
Connect(t) ==
    LET slug == task_slug[t]
        conn == task_conn[t]
    IN  /\ task_pc[t] = "connecting"
        /\ \E ok \in BOOLEAN :
             IF ok
             THEN /\ conn_objects' = [conn_objects EXCEPT ![conn].connected = TRUE]
                  /\ connections' = [connections EXCEPT ![slug] = conn]
                  /\ task_pc' = [task_pc EXCEPT ![t] = "list_tools"]
                  /\ UNCHANGED <<manager_lock, task_conn>>
             ELSE /\ conn_objects' = Disconnected(conn_objects, conn)
                  /\ manager_lock' = NoTask
                  /\ task_conn' = [task_conn EXCEPT ![t] = NoConn]
                  /\ task_pc' = [task_pc EXCEPT ![t] = "idle"]
                  /\ UNCHANGED connections
        /\ UNCHANGED <<notManagerVars, servers, task_slug, task_config, updateVars,
                       last_call, manager_calls>>

\* conn.list_tools() returns, get_or_connect releases the lock and returns conn
ListTools(t) ==
    /\ task_pc[t] = "list_tools"
    /\ manager_lock' = NoTask
    /\ task_pc' = [task_pc EXCEPT ![t] = "call_tool"]
    /\ UNCHANGED <<notManagerVars, servers, connections, conn_objects, task_slug,
                   task_config, task_conn, updateVars, last_call, manager_calls>>

\* _execute_mcp step 6: conn.call_tool writes the request to the subprocess of
\* the connection the task was handed
CallTool(t) ==
    LET conn == conn_objects[task_conn[t]]
    IN  /\ task_pc[t] = "call_tool"
        /\ last_call' = Call(task_slug[t], conn.process = "running", conn.config,
                             completed_version[task_slug[t]])
        /\ task_pc' = [task_pc EXCEPT ![t] = "idle"]
        /\ UNCHANGED <<notManagerVars, servers, connections, conn_objects, manager_lock,
                       task_slug, task_config, task_conn, updateVars, manager_calls>>

\* update_server: the new configuration is committed and the registry
\* refreshed; the request then waits for the manager lock
UpdateServerRefresh ==
    /\ update_pc = "idle"
    /\ \E s \in ManagerSlugs :
         /\ servers[s] < MaxVersion
         /\ servers' = [servers EXCEPT ![s] = servers[s] + 1]
         /\ update_slug' = s
    /\ update_pc' = "disconnect"
    /\ UNCHANGED <<notManagerVars, connections, conn_objects, manager_lock, task_pc,
                   task_slug, task_config, task_conn, update_conn, completed_version,
                   last_call, manager_calls>>

\* MCPClientManager.disconnect(slug) takes the lock and pops the connection;
\* with none registered the update completes, otherwise conn.disconnect()
\* starts
UpdateServerDisconnect ==
    LET conn == connections[update_slug]
    IN  /\ update_pc = "disconnect"
        /\ LockFree
        /\ connections' = [connections EXCEPT ![update_slug] = NoConn]
        /\ IF conn = NoConn
           THEN /\ update_pc' = "idle"
                /\ completed_version' =
                     [completed_version EXCEPT ![update_slug] = servers[update_slug]]
                /\ UNCHANGED <<conn_objects, manager_lock, update_conn>>
           ELSE /\ conn_objects' = [conn_objects EXCEPT ![conn].connected = FALSE]
                /\ manager_lock' = UpdateRequest
                /\ update_conn' = conn
                /\ update_pc' = "terminating"
                /\ UNCHANGED completed_version
        /\ UNCHANGED <<notManagerVars, servers, task_pc, task_slug, task_config,
                       task_conn, update_slug, last_call, manager_calls>>

\* conn.disconnect() returns: the subprocess has exited, the lock is released
\* and update_server returns
UpdateServerDisconnected ==
    /\ update_pc = "terminating"
    /\ conn_objects' = Disconnected(conn_objects, update_conn)
    /\ manager_lock' = NoTask
    /\ update_conn' = NoConn
    /\ update_pc' = "idle"
    /\ completed_version' =
         [completed_version EXCEPT ![update_slug] = servers[update_slug]]
    /\ UNCHANGED <<notManagerVars, servers, connections, task_pc, task_slug,
                   task_config, task_conn, update_slug, last_call, manager_calls>>

\* _read_stdout_loop of a connected server ends and clears _connected: the
\* subprocess has exited (EOF), or reading failed while it still runs
ServerExits ==
    /\ \E c \in DOMAIN conn_objects, exited \in BOOLEAN :
         /\ is_connected(c)
         /\ conn_objects' = IF exited THEN Disconnected(conn_objects, c)
                            ELSE [conn_objects EXCEPT ![c].connected = FALSE]
    /\ UNCHANGED <<notManagerVars, servers, connections, manager_lock, task_pc,
                   task_slug, task_config, task_conn, updateVars, last_call,
                   manager_calls>>

NextManager ==
    \/ \E t \in Tasks : GetServer(t)
    \/ \E t \in Tasks : ResolveEnv(t)
    \/ \E t \in Tasks : GetOrConnect(t)
    \/ \E t \in Tasks : Connect(t)
    \/ \E t \in Tasks : ListTools(t)
    \/ \E t \in Tasks : CallTool(t)
    \/ UpdateServerRefresh
    \/ UpdateServerDisconnect
    \/ UpdateServerDisconnected
    \/ ServerExits

\* ------------------------------------------------------------------ claims
RunningSubprocesses(slug) ==
    { c \in DOMAIN conn_objects :
        conn_objects[c].slug = slug /\ conn_objects[c].process = "running" }

LockHolderSlug ==
    IF manager_lock = UpdateRequest THEN update_slug ELSE task_slug[manager_lock]

\* a task whose server is connected waits in get_or_connect while the lock is
\* held for the setup or teardown of another server
WaitsForOtherServer(t) ==
    /\ task_pc[t] = "get_or_connect"
    /\ is_connected(connections[task_slug[t]])
    /\ manager_lock # NoTask
    /\ LockHolderSlug # task_slug[t]

\* C18: a tool call to a connected server never waits for the connection
\* setup or teardown of a different server.
C18_NoGlobalLockOnRequestPath ==
    \A t \in Tasks : ~WaitsForOtherServer(t)

\* C19: once a configuration update has completed, no tool call is served
\* over a connection established with the configuration from before it.
C19_NoCallOverStaleConfig ==
    last_call.served => last_call.config >= last_call.completed

\* ==========================================================================
\* Part 5: the provider driver cache of LLMClient
\* ==========================================================================
\* ------------------------------------------------------------------ bounds
\* last clock reading, in seconds
MaxCacheClock == 300
\* seconds between two clock readings
ClockStep == 30
\* configuration changes of one provider
MaxConfigVersion == 1

\* --------------------------------------------------------- program constants
\* self._CACHE_TTL
CACHE_TTL == 60

\* time.time() at construction: more than one TTL after the epoch
ClockStart == CACHE_TTL + CACHE_TTL

\* model ids, split at the first ":" - "copilot:gpt", "deepseek:chat", "gpt"
ModelIds == { <<"copilot", "gpt">>, <<"deepseek", "chat">>, <<"gpt">> }
CacheKeys == {"copilot", "deepseek", "github"}
\* the providers configured in the database
ConfiguredProviders == {"deepseek", "github"}

\* a provider driver built at time `created` from configuration `config`
Driver(created, config) == [built |-> TRUE, created |-> created, config |-> config]
NoDriver == [built |-> FALSE, created |-> 0, config |-> 0]

\* the configuration a driver for `key` is built from
CurrentConfig(key) == IF key \in ConfiguredProviders THEN provider_config.version[key] ELSE 0

\* what one _resolve_provider call leaves and returns
Resolved(cache, ts, key) == [providers |-> cache, provider_cache_ts |-> ts, cache_key |-> key]

\* self._providers[cache_key] = <new driver>; self._provider_cache_ts = now
Rebuilt(key, t) ==
    Resolved([providers EXCEPT ![key] = Driver(t, CurrentConfig(key))], t, key)

Cached(key) == Resolved(providers, provider_cache_ts, key)

\* cache_stale: one timestamp, shared by every key
CacheStale(t) == (t - provider_cache_ts) > CACHE_TTL

\* LLMClient._resolve_provider(model_id) called at time t
_resolve_provider(model_id, t) ==
    LET prefixed == Len(model_id) > 1
        slug == model_id[1]
        github == IF ~providers["github"].built \/ CacheStale(t)
                  THEN Rebuilt("github", t) ELSE Cached("github")
    IN  IF prefixed /\ slug = "copilot"
        THEN IF ~providers["copilot"].built \/ CacheStale(t)
             THEN Rebuilt("copilot", t) ELSE Cached("copilot")
        ELSE IF prefixed
        THEN IF providers[slug].built /\ ~CacheStale(t)
             THEN Cached(slug)
             ELSE IF provider_config.enabled THEN Rebuilt(slug, t)
             ELSE github
        ELSE github

\* the driver handed out: its key, when and from what it was built, the time of
\* the request and the configuration current at that time
Handed(key, driver, t) ==
    [handed |-> TRUE, cache_key |-> key, created |-> driver.created,
     config |-> driver.config, at |-> t, current |-> CurrentConfig(key)]

NoneHanded ==
    [handed |-> FALSE, cache_key |-> "", created |-> 0, config |-> 0, at |-> 0,
     current |-> 0]

CacheInit ==
    /\ clock = ClockStart
    /\ provider_config = [version |-> [k \in ConfiguredProviders |-> 0], enabled |-> TRUE]
    /\ providers = [k \in CacheKeys |-> NoDriver]
    /\ provider_cache_ts = 0
    /\ last_resolved = NoneHanded

\* ----------------------------------------------------------------- actions
ResolveProvider ==
    /\ \E model_id \in ModelIds :
         LET r == _resolve_provider(model_id, clock)
         IN  /\ providers' = r.providers
             /\ provider_cache_ts' = r.provider_cache_ts
             /\ last_resolved' = Handed(r.cache_key, r.providers[r.cache_key], clock)
    /\ UNCHANGED <<notCacheVars, clock, provider_config>>

\* LLMClient.invalidate_cache
InvalidateCache ==
    /\ providers' = [k \in CacheKeys |-> NoDriver]
    /\ provider_cache_ts' = 0
    /\ UNCHANGED <<notCacheVars, clock, provider_config, last_resolved>>

\* a provider row is edited in the database
ProviderEdited ==
    /\ \E k \in ConfiguredProviders :
         /\ provider_config.version[k] < MaxConfigVersion
         /\ provider_config' =
              [provider_config EXCEPT !.version[k] = provider_config.version[k] + 1]
    /\ UNCHANGED <<notCacheVars, clock, providers, provider_cache_ts, last_resolved>>

\* the third-party provider is enabled or disabled
ProviderToggled ==
    /\ provider_config' = [provider_config EXCEPT !.enabled = ~provider_config.enabled]
    /\ UNCHANGED <<notCacheVars, clock, providers, provider_cache_ts, last_resolved>>

ClockTick ==
    /\ clock + ClockStep <= MaxCacheClock
    /\ clock' = clock + ClockStep
    /\ UNCHANGED <<notCacheVars, provider_config, providers, provider_cache_ts,
                   last_resolved>>

NextCache ==
    \/ ResolveProvider
    \/ InvalidateCache
    \/ ProviderEdited
    \/ ProviderToggled
    \/ ClockTick

\* ------------------------------------------------------------------ claims
\* C20: a cached driver is never handed out more than the cache TTL after it
\* was created, whatever requests were made for other keys in between.
C20_DriverNeverOlderThanTTL ==
    last_resolved.handed => last_resolved.at - last_resolved.created <= CACHE_TTL

\* ==========================================================================
\* Part 6: the context builder
\* ==========================================================================
\* ------------------------------------------------------------------ bounds
\* context sources registered with the builder
MaxSources == 2
\* sections one gather() returns
MaxSectionsPerSource == 2

\* --------------------------------------------------------- program constants
\* len("\n... (<truncation notice>)"), the marker appended to a trimmed section
MarkerLen == 13
\* budget_tokens of the builds made
BudgetChoices == {10, 25}
\* len(section.content) of the sections the sources return
SectionLens == {0, 8, 40, 200}

\* core.token_utils.estimate_tokens, on the length of the text: one token per
\* four characters, rounded up
estimate_tokens(len) == (len + 3) \div 4

\* ContextSection(content, trimmable): the content is kept by its length
ContextSection(len, trimmable) == [content |-> len, tokens |-> 0, trimmable |-> trimmable]

ContextSections == { ContextSection(l, t) : l \in SectionLens, t \in BOOLEAN }

\* what source.gather() may return
GatherResults ==
    UNION { [1..n -> ContextSections] : n \in 0..MaxSectionsPerSource }

\* int(x) of the quotient a / b, b > 0: truncation towards zero
TruncInt(a, b) == IF a >= 0 THEN a \div b ELSE -((-a) \div b)

\* len(content[:n]) for a content of `len` characters
SliceLen(len, n) ==
    IF n >= 0 THEN Min(n, len)
    ELSE IF len + n > 0 THEN len + n ELSE 0

\* int(len(content) * ratio * 0.9) with ratio = remaining / max(tokens, 1)
TrimmedLen(section, remaining) ==
    LET tokens == estimate_tokens(section.content)
    IN  TruncInt(section.content * remaining * 9, (IF tokens > 1 THEN tokens ELSE 1) * 10)

\* the trimmable branch: the cut content plus the marker, re-estimated
Trimmed(section, remaining) ==
    LET content == SliceLen(section.content, TrimmedLen(section, remaining)) + MarkerLen
    IN  [section EXCEPT !.content = content, !.tokens = estimate_tokens(content)]

RECURSIVE SumTokens(_)
SumTokens(sections) ==
    IF sections = <<>> THEN 0
    ELSE Head(sections).tokens + SumTokens(Tail(sections))

BuilderInit ==
    /\ build_pc = "idle"
    /\ budget_tokens = 0
    /\ remaining_budget = 0
    /\ sources_left = 0
    /\ pending_sections = <<>>
    /\ all_sections = <<>>

\* ----------------------------------------------------------------- actions
\* ContextBuilder.build(budget_tokens) is called
Build ==
    /\ build_pc = "idle"
    /\ \E b \in BudgetChoices :
         /\ budget_tokens' = b
         /\ remaining_budget' = b
    /\ sources_left' = MaxSources
    /\ build_pc' = "source"
    /\ UNCHANGED <<notBuilderVars, pending_sections, all_sections>>

\* the next source is asked for its sections (a source that raises is logged
\* and contributes none)
Gather ==
    /\ build_pc = "source"
    /\ sources_left > 0
    /\ remaining_budget > 0
    /\ \E sections \in GatherResults : pending_sections' = sections
    /\ sources_left' = sources_left - 1
    /\ build_pc' = "sections"
    /\ UNCHANGED <<notBuilderVars, budget_tokens, remaining_budget, all_sections>>

\* one turn of the loop over the sections of a source: keep, trim or drop
KeepOrTrim ==
    /\ build_pc = "sections"
    /\ pending_sections # <<>>
    /\ LET section == [Head(pending_sections) EXCEPT
                          !.tokens = estimate_tokens(Head(pending_sections).content)]
       IN  IF section.tokens <= remaining_budget
           THEN /\ all_sections' = Append(all_sections, section)
                /\ remaining_budget' = remaining_budget - section.tokens
           ELSE IF section.trimmable
           THEN LET trimmed == Trimmed(section, remaining_budget)
                IN  /\ all_sections' = Append(all_sections, trimmed)
                    /\ remaining_budget' = remaining_budget - trimmed.tokens
           ELSE UNCHANGED <<all_sections, remaining_budget>>
    /\ pending_sections' = Tail(pending_sections)
    /\ UNCHANGED <<notBuilderVars, build_pc, budget_tokens, sources_left>>

\* the sections of the source are exhausted
NextSource ==
    /\ build_pc = "sections"
    /\ pending_sections = <<>>
    /\ build_pc' = "source"
    /\ UNCHANGED <<notBuilderVars, budget_tokens, remaining_budget, sources_left,
                   pending_sections, all_sections>>

\* no source is left or the budget is used up: the prompt is assembled
Assemble ==
    /\ build_pc = "source"
    /\ sources_left = 0 \/ remaining_budget <= 0
    /\ build_pc' = "done"
    /\ UNCHANGED <<notBuilderVars, budget_tokens, remaining_budget, sources_left,
                   pending_sections, all_sections>>

NextBuilder ==
    \/ Build
    \/ Gather
    \/ KeepOrTrim
    \/ NextSource
    \/ Assemble

\* ------------------------------------------------------------------ claims
\* C21: in every context build the estimated tokens of the sections kept sum
\* to at most budget_tokens.
C21_KeptSectionsWithinBudget ==
    SumTokens(all_sections) <= budget_tokens

\* ==========================================================================
\* Part 7: the context window manager
\* ==========================================================================
\* ------------------------------------------------------------------ bounds
\* messages in the list handed to prepare_context
MaxMessages == 6

\* --------------------------------------------------------- program constants
MIN_RECENT_MESSAGES == 2

\* history budgets of the trims made, in tokens
WindowBudgets == {10, 20}
\* len(content) of the messages; 0 is the empty content
ContentLens == {0, 8, 20, 60}

\* a message content: which text it is a prefix of, and how long it is
Content(text, len) == [text |-> text, len |-> len]

\* the i-th message of a conversation; roles alternate
Message(i, len) ==
    [role |-> IF i % 2 = 1 THEN "user" ELSE "assistant", content |-> Content(i, len)]

MessageLists ==
    UNION { { [i \in 1..n |-> Message(i, lens[i])] : lens \in [1..n -> ContentLens] } :
            n \in 0..MaxMessages }

\* core.token_utils.estimate_messages_tokens: the contents' estimates, summed
RECURSIVE estimate_messages_tokens(_)
estimate_messages_tokens(messages) ==
    IF messages = <<>> THEN 0
    ELSE estimate_tokens(Head(messages).content.len)
         + estimate_messages_tokens(Tail(messages))

\* core.token_utils.truncate_text(text, max_tokens): the longest prefix
\* estimated at max_tokens or less
truncate_text(content, max_tokens) ==
    [content EXCEPT !.len = Min(content.len, max_tokens * 4)]

\* estimate_tokens(content) > budget * 0.3
ExceedsShare(content, budget) == 10 * estimate_tokens(content.len) > 3 * budget

\* int(budget * 0.3)
ShareOf(budget) == (3 * budget) \div 10

\* the loop over recent: a content above 30 % of the budget is cut to it
ShrinkLarge(msg, budget) ==
    IF msg.content.len > 0 /\ ExceedsShare(msg.content, budget)
    THEN [msg EXCEPT !.content = truncate_text(msg.content, ShareOf(budget))]
    ELSE msg

\* seq[-n:]
LastN(seq, n) ==
    IF Len(seq) <= n THEN seq ELSE SubSeq(seq, Len(seq) - n + 1, Len(seq))

\* what is returned when the protected messages alone use up the budget
OverBudgetTail_All(recent) == recent

OverBudgetTail_FirstTwo(recent) == SubSeq(recent, 1, Min(2, Len(recent)))

OverBudgetTail(recent) == LastN(recent, 2)

\* the loop over reversed(older): older messages are kept, newest first, while
\* their contents fit
RECURSIVE KeepOlder(_, _)
KeepOlder(older, remaining_tokens) ==
    IF older = <<>> THEN <<>>
    ELSE LET msg == older[Len(older)]
             msg_tokens == estimate_tokens(msg.content.len)
         IN  IF remaining_tokens >= msg_tokens
             THEN Append(KeepOlder(SubSeq(older, 1, Len(older) - 1),
                                   remaining_tokens - msg_tokens), msg)
             ELSE <<>>

\* _truncate_messages(messages, budget): the list it returns
_truncate_messages(messages, budget) ==
    IF messages = <<>> THEN <<>>
    ELSE IF estimate_messages_tokens(messages) <= budget THEN messages
    ELSE LET protected == Min(MIN_RECENT_MESSAGES * 2, Len(messages))
             older == SubSeq(messages, 1, Len(messages) - protected)
             tail == LastN(messages, protected)
             recent == [i \in 1..Len(tail) |-> ShrinkLarge(tail[i], budget)]
             left == budget - estimate_messages_tokens(recent)
         IN  IF left <= 0 THEN OverBudgetTail(recent)
             ELSE KeepOlder(older, left) \o recent

WindowInit ==
    /\ window_op = "idle"
    /\ window_messages = <<>>
    /\ window_budget = 0
    /\ window_result = <<>>

\* ----------------------------------------------------------------- actions
\* prepare_context trims one message list to one history budget
TruncateMessages ==
    /\ window_op = "idle"
    /\ \E messages \in MessageLists, budget \in WindowBudgets :
         /\ window_messages' = messages
         /\ window_budget' = budget
         /\ window_result' = _truncate_messages(messages, budget)
    /\ window_op' = "done"
    /\ UNCHANGED notWindowVars

NextWindow == TruncateMessages

\* ------------------------------------------------------------------ claims
WindowTrimmed == window_op = "done"

\* the list was over budget and had to be cut
WasOverBudget ==
    WindowTrimmed /\ estimate_messages_tokens(window_messages) > window_budget

LastOf(seq) == seq[Len(seq)]

\* C23 as stated: a non-empty result ends with the input's last message, equal
\* in role and in full content.
C23_LastMessageUnchanged ==
    WindowTrimmed /\ window_result # <<>> =>
      LastOf(window_result) = LastOf(window_messages)

\* C23, amended: a non-empty result ends with the input's last message, with
\* its role; its content is unchanged unless the list was over budget and the
\* content is estimated above 30 % of the budget, and then it is that content
\* cut by truncate_text to 30 % of the budget.
C23_LastMessageKeptOrShrunk ==
    WindowTrimmed /\ window_result # <<>> =>
      LET last == LastOf(window_messages)
          out == LastOf(window_result)
      IN  /\ out.role = last.role
          /\ out.content.text = last.content.text
          /\ out.content =
               IF WasOverBudget /\ 10 * estimate_tokens(last.content.len) > 3 * window_budget
               THEN truncate_text(last.content, (3 * window_budget) \div 10)
               ELSE last.content

\* the last message was shrunk, and older messages were dropped
C23_Witness ==
    /\ WasOverBudget
    /\ window_result # <<>>
    /\ LastOf(window_result).content.text = LastOf(window_messages).content.text
    /\ LastOf(window_result).content.len < LastOf(window_messages).content.len
    /\ Len(window_result) < Len(window_messages)

\* ==========================================================================
\* Part 8: tool calls rebuilt from streamed deltas, in two arrival orders
\* ==========================================================================
\* ------------------------------------------------------------------ bounds
\* tool_call_delta events in one streamed response
MaxStream == 3

\* the streams of at most MaxStream deltas
DeltaStreams == UNION { [1..n -> ToolCallDeltas] : n \in 0..MaxStream }

\* the stream s re-ordered by the permutation p: position k holds s[p[k]]
Reordered(s, p) == [k \in 1..Len(s) |-> s[p[k]]]

\* p keeps the relative order of the deltas that share a tool_call_index
PreservesIndexOrder(s, p) ==
    \A i, j \in 1..Len(s) :
        (i < j /\ s[p[i]].idx = s[p[j]].idx) => p[i] < p[j]

\* pending_tool_calls after every tool_call_delta of the stream, from {}
RECURSIVE Reconstruct(_, _)
Reconstruct(items, deltas) ==
    IF deltas = <<>> THEN items
    ELSE Reconstruct(MergeDelta(items, Head(deltas)), Tail(deltas))

DeltasInit ==
    /\ deltas_op = "idle"
    /\ arrival_a = <<>>
    /\ arrival_b = <<>>
    /\ pending_a = <<>>
    /\ pending_b = <<>>

\* ----------------------------------------------------------------- actions
\* one response streamed in the order arrival_a, and again in arrival_b
ReconstructBoth ==
    /\ deltas_op = "idle"
    /\ \E s \in DeltaStreams : \E p \in Permutations(1..Len(s)) :
         /\ PreservesIndexOrder(s, p)
         /\ arrival_a' = s
         /\ arrival_b' = Reordered(s, p)
         /\ pending_a' = Reconstruct(<<>>, s)
         /\ pending_b' = Reconstruct(<<>>, Reordered(s, p))
    /\ deltas_op' = "done"
    /\ UNCHANGED notDeltasVars

NextDeltas == ReconstructBoth

\* ------------------------------------------------------------------ claims
\* the dict as a map: its entries without their insertion order
ToolCallMap(items) == { items[k] : k \in 1..Len(items) }

\* the arguments_delta strings of one index, concatenated in arrival order
RECURSIVE ArgumentsOf(_, _)
ArgumentsOf(deltas, idx) ==
    IF deltas = <<>> THEN <<>>
    ELSE (IF Head(deltas).idx = idx THEN Head(deltas).args ELSE <<>>)
         \o ArgumentsOf(Tail(deltas), idx)

ArgumentsConcatenated(items, deltas) ==
    \A k \in 1..Len(items) : items[k].arguments = ArgumentsOf(deltas, items[k].idx)

\* C24: two arrival orders of the same deltas that keep the order of the deltas
\* of each index rebuild the same map index -> {id, name, arguments}, and each
\* arguments string is the concatenation of its index's arguments_delta strings
\* in arrival order.
C24_ReconstructionOrderIndependent ==
    deltas_op = "done" =>
        /\ ToolCallMap(pending_a) = ToolCallMap(pending_b)
        /\ ArgumentsConcatenated(pending_a, arrival_a)
        /\ ArgumentsConcatenated(pending_b, arrival_b)

\* two indexes interleaved differently, one of them fed by two argument deltas
C24_Witness ==
    /\ deltas_op = "done"
    /\ arrival_a # arrival_b
    /\ pending_a # pending_b
    /\ \E i, j \in 1..Len(arrival_a) :
         /\ i < j
         /\ arrival_a[i].idx = arrival_a[j].idx
         /\ arrival_a[i].args # <<>>
         /\ arrival_a[j].args # <<>>

\* ==========================================================================
\* Part 9: Studio names of MCP tools (make, convert, parse)
\* ==========================================================================
\* ------------------------------------------------------------------ bounds
\* characters of a server slug
MaxSlugLen == 4
\* characters of an MCP tool name
MaxToolLen == 3

\* strings are sequences of characters
MCP_TOOL_PREFIX == <<"m", "c", "p", "_">>
MCP_TOOL_SEPARATOR == <<"_", "_">>

NameChars == {"a", "_"}
\* MCPServerCreate.slug: ^[a-z][a-z0-9_-]*$
Slugs ==
    { s \in UNION { [1..n -> NameChars] : n \in 1..MaxSlugLen } : s[1] = "a" }
McpToolNames == UNION { [1..n -> NameChars] : n \in 1..MaxToolLen }

\* str.startswith
StartsWith(s, prefix) ==
    /\ Len(s) >= Len(prefix)
    /\ SubSeq(s, 1, Len(prefix)) = prefix

\* str.find, 1-based; 0 when sub does not occur
Find(s, sub) ==
    LET hits == { i \in 1..(Len(s) - Len(sub) + 1) : SubSeq(s, i, i + Len(sub) - 1) = sub }
    IN  IF hits = {} THEN 0 ELSE CHOOSE i \in hits : \A j \in hits : i <= j

make_studio_tool_name(server_slug, mcp_tool_name) ==
    MCP_TOOL_PREFIX \o server_slug \o MCP_TOOL_SEPARATOR \o mcp_tool_name

NotMcp == [mcp |-> FALSE, server_slug |-> <<>>, tool_name |-> <<>>]

\* None, or (parts[0], parts[1]) of rest.split(MCP_TOOL_SEPARATOR, 1)
parse_studio_tool_name(studio_name) ==
    IF ~StartsWith(studio_name, MCP_TOOL_PREFIX) THEN NotMcp
    ELSE LET rest == SubSeq(studio_name, Len(MCP_TOOL_PREFIX) + 1, Len(studio_name))
             at == Find(rest, MCP_TOOL_SEPARATOR)
         IN  IF at = 0 THEN NotMcp
             ELSE [mcp |-> TRUE,
                   server_slug |-> SubSeq(rest, 1, at - 1),
                   tool_name |-> SubSeq(rest, at + Len(MCP_TOOL_SEPARATOR), Len(rest))]

\* the "function" entry of the converted tool definition
mcp_tool_to_openai(mcp_tool, server_slug) ==
    [type |-> "function",
     name |-> make_studio_tool_name(server_slug, mcp_tool.name)]

NamingInit ==
    /\ naming_op = "idle"
    /\ naming_slug = <<>>
    /\ naming_tool = <<>>
    /\ naming_parsed = NotMcp

\* ----------------------------------------------------------------- actions
\* a discovered tool is converted and its Studio name parsed back
ConvertAndParse ==
    /\ naming_op = "idle"
    /\ \E slug \in Slugs : \E tool \in McpToolNames :
         /\ naming_slug' = slug
         /\ naming_tool' = tool
         /\ naming_parsed' =
              parse_studio_tool_name(mcp_tool_to_openai([name |-> tool], slug).name)
    /\ naming_op' = "done"
    /\ UNCHANGED notNamingVars

NextNaming == ConvertAndParse

\* ------------------------------------------------------------------ claims
\* C25: for every server slug and every MCP tool name, parsing the Studio name
\* made by mcp_tool_to_openai gives back exactly (slug, tool name).
C25_NameRoundTrips ==
    naming_op = "done" =>
        /\ naming_parsed.mcp
        /\ naming_parsed.server_slug = naming_slug
        /\ naming_parsed.tool_name = naming_tool

\* ==========================================================================
\* Part 10: the token budget manager
\* ==========================================================================
\* ------------------------------------------------------------------ bounds
\* record_usage calls
MaxRecords == 2
\* last reading of time.time(), in seconds
MaxBudgetClock == 90
\* seconds between two readings
BudgetClockStep == 30

\* --------------------------------------------------------- program constants
\* BudgetLimit(max_tokens=200_000) of the "session" entry
DefaultSessionTokens == 200000

\* the keys of _limits and of _usage that occur
LimitKeys == {"session", "global", "project:p1", "session:s1"}
UsageScopes == {"global", "project:p1", "session:s1"}
SessionIds == {"", "s1"}
BudgetProjectIds == {"", "p1"}
\* tokens and cost (in cents) of one recorded request
TokenAmounts == {100000}
CostAmounts == {0, 1}

BudgetLimit(max_tokens, max_cost_cents, period_seconds) ==
    [set |-> TRUE, max_tokens |-> max_tokens, max_cost_cents |-> max_cost_cents,
     period_seconds |-> period_seconds]
\* self._limits.get(scope) is None
NoLimit == [set |-> FALSE, max_tokens |-> 0, max_cost_cents |-> 0, period_seconds |-> 0]
\* the limits set_limit is called with
LimitChoices == { BudgetLimit(DefaultSessionTokens, 0, 60), BudgetLimit(0, 1, 0) }

BudgetUsage(window_start) ==
    [present |-> TRUE, tokens_used |-> 0, cost_cents |-> 0, requests |-> 0,
     window_start |-> window_start]
\* scope not in self._usage
NoUsage == [present |-> FALSE, tokens_used |-> 0, cost_cents |-> 0, requests |-> 0,
            window_start |-> 0]

\* f"session:{session_id}", f"project:{project_id}"
SessionScope(session_id) == IF session_id = "s1" THEN "session:s1" ELSE ""
ProjectScope(project_id) == IF project_id = "p1" THEN "project:p1" ELSE ""

\* now - usage.window_start > limit.period_seconds, for a limit with a period
WindowExpired(u, limit, t) ==
    /\ limit.set
    /\ limit.period_seconds > 0
    /\ t - u.window_start > limit.period_seconds

\* self._usage[scope] after _record_scope(scope, tokens, cost, now)
_record_scope(usage, scope, tokens, cost, t) ==
    LET created == IF usage[scope].present THEN usage[scope] ELSE BudgetUsage(t)
        u == IF WindowExpired(created, limits[scope], t) THEN BudgetUsage(t) ELSE created
    IN  [usage EXCEPT ![scope] =
            [u EXCEPT !.tokens_used = u.tokens_used + tokens,
                      !.cost_cents = u.cost_cents + cost,
                      !.requests = u.requests + 1]]

\* _usage after record_usage(tokens, cost_cents, session_id, project_id)
record_usage(usage, tokens, cost, session_id, project_id, t) ==
    LET g == _record_scope(usage, "global", tokens, cost, t)
        p == IF project_id # ""
             THEN _record_scope(g, ProjectScope(project_id), tokens, cost, t) ELSE g
    IN  IF session_id # ""
        THEN _record_scope(p, SessionScope(session_id), tokens, cost, t) ELSE p

\* the first element of _check_scope(scope): the limit is looked up under the
\* scope's own key; the window of the usage is not looked at
_check_scope(scope) ==
    LET limit == limits[scope]
        u == budget_usage[scope]
    IN  IF ~limit.set \/ (limit.max_tokens = 0 /\ limit.max_cost_cents = 0) THEN TRUE
        ELSE IF limit.max_tokens > 0 /\ u.tokens_used >= limit.max_tokens THEN FALSE
        ELSE IF limit.max_cost_cents > 0 /\ u.cost_cents >= limit.max_cost_cents THEN FALSE
        ELSE TRUE

\* check_budget(session_id, project_id)["allowed"]
check_budget(session_id, project_id) ==
    IF ~_check_scope("global") THEN FALSE
    ELSE IF project_id # "" /\ ~_check_scope(ProjectScope(project_id)) THEN FALSE
    ELSE IF session_id # "" /\ ~_check_scope(SessionScope(session_id)) THEN FALSE
    ELSE TRUE

\* the last call and what it returned
NoBudgetCall ==
    [op |-> "none", session_id |-> "", project_id |-> "", allowed |-> TRUE,
     tokens |-> 0, cost |-> 0, expired |-> {}]

BudgetInit ==
    /\ budget_now = 0
    /\ limits = [k \in LimitKeys |->
                   IF k = "session" THEN BudgetLimit(DefaultSessionTokens, 0, 0)
                   ELSE IF k = "global" THEN BudgetLimit(0, 0, 0)
                   ELSE NoLimit]
    /\ budget_usage = [s \in UsageScopes |-> NoUsage]
    /\ records_made = 0
    /\ budget_call = NoBudgetCall

\* ----------------------------------------------------------------- actions
SetLimit ==
    /\ \E scope \in LimitKeys \ {"session"} : \E limit \in LimitChoices :
         /\ limits[scope] # limit
         /\ limits' = [limits EXCEPT ![scope] = limit]
    /\ budget_call' = NoBudgetCall
    /\ UNCHANGED <<notBudgetVars, budget_now, budget_usage, records_made>>

RecordUsage ==
    /\ records_made < MaxRecords
    /\ \E tokens \in TokenAmounts : \E cost \in CostAmounts :
       \E session_id \in SessionIds : \E project_id \in BudgetProjectIds :
         LET touched == {"global", ProjectScope(project_id), SessionScope(session_id)}
                            \cap UsageScopes
         IN  /\ budget_usage' =
                    record_usage(budget_usage, tokens, cost, session_id, project_id,
                                 budget_now)
             /\ budget_call' =
                    [op |-> "record", session_id |-> session_id,
                     project_id |-> project_id, allowed |-> TRUE,
                     tokens |-> tokens, cost |-> cost,
                     expired |-> { s \in touched :
                                     /\ budget_usage[s].present
                                     /\ WindowExpired(budget_usage[s], limits[s],
                                                      budget_now) }]
    /\ records_made' = records_made + 1
    /\ UNCHANGED <<notBudgetVars, budget_now, limits>>

CheckBudget ==
    /\ \E session_id \in SessionIds : \E project_id \in BudgetProjectIds :
         budget_call' =
            [op |-> "check", session_id |-> session_id, project_id |-> project_id,
             allowed |-> check_budget(session_id, project_id),
             tokens |-> 0, cost |-> 0, expired |-> {}]
    /\ UNCHANGED <<notBudgetVars, budget_now, limits, budget_usage, records_made>>

\* reset_session(session_id)
ResetSession ==
    /\ budget_usage["session:s1"].present
    /\ budget_usage' = [budget_usage EXCEPT !["session:s1"] = NoUsage]
    /\ budget_call' = NoBudgetCall
    /\ UNCHANGED <<notBudgetVars, budget_now, limits, records_made>>

BudgetTick ==
    /\ budget_now + BudgetClockStep <= MaxBudgetClock
    /\ budget_now' = budget_now + BudgetClockStep
    /\ budget_call' = NoBudgetCall
    /\ UNCHANGED <<notBudgetVars, limits, budget_usage, records_made>>

NextBudget ==
    \/ SetLimit
    \/ RecordUsage
    \/ CheckBudget
    \/ ResetSession
    \/ BudgetTick

\* ------------------------------------------------------------------ claims
\* the scopes a call with these ids is about
RelevantScopes(session_id, project_id) ==
    {"global", ProjectScope(project_id), SessionScope(session_id)} \cap UsageScopes

\* the limit configured for the kind of a scope: the scope's own entry when
\* there is one, else the entry of its kind ("session")
KindLimit(scope) ==
    IF limits[scope].set THEN limits[scope]
    ELSE IF scope = "session:s1" THEN limits["session"]
    ELSE NoLimit

\* usage u has reached 100 % of the limit
ReachedLimit(u, limit) ==
    /\ limit.set
    /\ \/ limit.max_tokens > 0 /\ u.tokens_used >= limit.max_tokens
       \/ limit.max_cost_cents > 0 /\ u.cost_cents >= limit.max_cost_cents

\* C26: check_budget returns allowed = false whenever the usage of a scope
\* relevant to the call has reached 100 % of the limit configured for that kind
\* of scope, the default per-session token limit included.
C26_ExhaustedScopeDenied ==
    budget_call.op = "check" =>
        ( (\E s \in RelevantScopes(budget_call.session_id, budget_call.project_id) :
              ReachedLimit(budget_usage[s], KindLimit(s)))
          => ~budget_call.allowed )

\* the usage of a scope that falls into its current rolling window
InWindow(scope) ==
    IF WindowExpired(budget_usage[scope], limits[scope], budget_now)
    THEN NoUsage ELSE budget_usage[scope]

\* C27: usage recorded before the current rolling window of a scope does not
\* count: once the window has elapsed, record_usage starts the scope again from
\* zero, and check_budget does not deny a call for usage of an elapsed window.
C27_ElapsedWindowNotCounted ==
    /\ budget_call.op = "record" =>
         \A s \in budget_call.expired :
            /\ budget_usage[s].tokens_used = budget_call.tokens
            /\ budget_usage[s].cost_cents = budget_call.cost
            /\ budget_usage[s].requests = 1
    /\ budget_call.op = "check" =>
         ( (\A s \in RelevantScopes(budget_call.session_id, budget_call.project_id) :
               ~ReachedLimit(InWindow(s), limits[s]))
           => budget_call.allowed )

\* ==========================================================================
\* Part 11: the vector index and the background indexer
\* ==========================================================================
\* ------------------------------------------------------------------ bounds
\* writes and deletions of workspace files
MaxWrites == 2
\* index_once calls
MaxPasses == 2
\* save_to_db calls
MaxFlushes == 1

\* the files _scan_files finds, as os.path.join(root, fname)
IndexedPaths == {"ws/a.py", "ws/b.py"}
\* the order in which os.walk lists them
ScanOrder == <<"ws/a.py", "ws/b.py">>
\* os.path.relpath(fpath, self.workspace_path)
RelPath(fpath) == IF fpath = "ws/a.py" THEN "a.py" ELSE "b.py"

\* what a file can hold; "absent" is a deleted file
FileContents == {"c1", "c2", "c3", "blank"}
NoFile == [content |-> "absent", mtime |-> 0]

\* Chunk(source, start_line, end_line) with the first 50 characters of its text
Chunk(source, start_line, end_line, head) ==
    [source |-> source, start_line |-> start_line, end_line |-> end_line, head |-> head]

\* CodeChunker.chunk_file(content, rel): "c1" and "c2" are one chunk of the
\* same lines with different text, "c3" is two chunks
chunk_file(content, rel) ==
    IF content = "c1" THEN << Chunk(rel, 1, 10, "h1") >>
    ELSE IF content = "c2" THEN << Chunk(rel, 1, 10, "h2") >>
    ELSE IF content = "c3" THEN << Chunk(rel, 1, 5, "h1"), Chunk(rel, 6, 10, "h3") >>
    ELSE << >>

\* hashlib.md5(f"{source}:{start_line}:{end_line}:{content[:50]}"): one id per
\* distinct text hashed
EntryId(chunk) == <<chunk.source, chunk.start_line, chunk.end_line, chunk.head>>

\* IndexEntry; updated_at is the time of the upsert
IndexEntry(chunk, t) ==
    [id |-> EntryId(chunk), source |-> chunk.source, start_line |-> chunk.start_line,
     end_line |-> chunk.end_line, head |-> chunk.head, updated_at |-> t]

\* self._id_map[entry_id], 0 when the id is not in the map
IdPos(entries, id) ==
    IF \E k \in 1..Len(entries) : entries[k].id = id
    THEN CHOOSE k \in 1..Len(entries) : entries[k].id = id
    ELSE 0

\* VectorIndex.upsert: _entries afterwards
upsert(entries, entry) ==
    IF IdPos(entries, entry.id) # 0
    THEN [entries EXCEPT ![IdPos(entries, entry.id)] = entry]
    ELSE Append(entries, entry)

\* VectorIndex.remove
remove(entries, id) ==
    LET k == IdPos(entries, id)
    IN  IF k = 0 THEN entries
        ELSE SubSeq(entries, 1, k - 1) \o SubSeq(entries, k + 1, Len(entries))

\* the removal loop of _index_file: every entry whose source equals fpath
RECURSIVE RemoveOld(_, _)
RemoveOld(entries, fpath) ==
    LET old_ids == { entries[k].id : k \in { j \in 1..Len(entries) :
                                                entries[j].source = fpath } }
    IN  IF old_ids = {} THEN entries
        ELSE RemoveOld(remove(entries, CHOOSE id \in old_ids : TRUE), fpath)

\* the indexer between two awaits: from the head of to_index on, each file is
\* read, its old entries removed and its text chunked; a file without chunks
\* is finished at once; the run stops at the first embed_text call or when no
\* file is left
Progress(entries, indexed, todo, chunks) ==
    [entries |-> entries, indexed |-> indexed, to_index |-> todo, chunks |-> chunks]

RECURSIVE StartFiles(_, _, _)
StartFiles(entries, indexed, todo) ==
    IF todo = <<>> THEN Progress(entries, indexed, todo, <<>>)
    ELSE LET fpath == Head(todo)[1]
             mtime == Head(todo)[2]
             content == workspace[fpath].content
             finished == [indexed EXCEPT ![fpath] = mtime]
         IN  IF content \in {"absent", "blank"}
             THEN StartFiles(entries, finished, Tail(todo))
             ELSE LET cleaned == RemoveOld(entries, fpath)
                      chunks == chunk_file(content, RelPath(fpath))
                  IN  IF chunks = <<>>
                      THEN StartFiles(cleaned, finished, Tail(todo))
                      ELSE Progress(cleaned, indexed, todo, chunks)

\* the files of the scan that index_once hands to _index_file, with their mtime
\* a file is handed over unless its recorded mtime is at least its mtime
NeedsIndexing(fpath) == ~(indexed_files[fpath] >= workspace[fpath].mtime)
ToIndex(paths) ==
    LET found == SelectSeq(ScanOrder, LAMBDA p : p \in paths /\ NeedsIndexing(p))
    IN  [k \in 1..Len(found) |-> <<found[k], workspace[found[k]].mtime>>]

EntrySet(entries) == { entries[k] : k \in 1..Len(entries) }

IndexInit ==
    /\ workspace = [f \in IndexedPaths |-> NoFile]
    /\ ws_clock = 0
    /\ index_entries = <<>>
    /\ index_dirty = FALSE
    /\ indexed_files = [f \in IndexedPaths |-> 0]
    /\ index_pc = "idle"
    /\ to_index = <<>>
    /\ pending_chunks = <<>>
    /\ last_scan = {}
    /\ passes = 0
    /\ flush_pc = "idle"
    /\ flush_pos = 0
    /\ flush_rows = {}
    /\ flush_held = {}
    /\ db_rows = {}
    /\ flushes = 0

indexerVars == <<indexed_files, index_pc, to_index, pending_chunks, last_scan, passes>>
flushVars == <<flush_pc, flush_pos, flush_rows, db_rows, flushes>>

\* ----------------------------------------------------------------- actions
\* a file is written (created, changed or touched)
WriteFile ==
    /\ ws_clock < MaxWrites
    /\ \E f \in IndexedPaths : \E c \in FileContents :
         workspace' = [workspace EXCEPT ![f] = [content |-> c, mtime |-> ws_clock + 1]]
    /\ ws_clock' = ws_clock + 1
    /\ UNCHANGED <<notIndexVars, index_entries, index_dirty, indexerVars, flushVars,
                   flush_held>>

DeleteFile ==
    /\ ws_clock < MaxWrites
    /\ \E f \in IndexedPaths :
         /\ workspace[f].content # "absent"
         /\ workspace' = [workspace EXCEPT ![f] = NoFile]
    /\ ws_clock' = ws_clock + 1
    /\ UNCHANGED <<notIndexVars, index_entries, index_dirty, indexerVars, flushVars,
                   flush_held>>

\* the index after a stretch of the indexer, and what a running flush has seen
Mutated(entries) ==
    /\ index_entries' = entries
    /\ index_dirty' = (index_dirty \/ entries # index_entries)
    /\ flush_held' = IF flush_pc = "inserting"
                     THEN flush_held \cup {EntrySet(entries)} ELSE flush_held

\* index_once up to its first await
IndexOnce ==
    /\ index_pc = "idle"
    /\ passes < MaxPasses
    /\ LET files == { f \in IndexedPaths : workspace[f].content # "absent" }
           r == StartFiles(index_entries, indexed_files, ToIndex(files))
       IN  /\ last_scan' = files
           /\ Mutated(r.entries)
           /\ indexed_files' = r.indexed
           /\ to_index' = r.to_index
           /\ pending_chunks' = r.chunks
           /\ index_pc' = IF r.chunks = <<>> THEN "idle" ELSE "embedding"
    /\ passes' = passes + 1
    /\ UNCHANGED <<notIndexVars, workspace, ws_clock, flushVars>>

\* embed_text returns or raises for the chunk at the head; the indexer runs on
\* to its next await
EmbedDone ==
    /\ index_pc = "embedding"
    /\ \E ok \in BOOLEAN :
         LET chunk == Head(pending_chunks)
             upserted == IF ok THEN upsert(index_entries, IndexEntry(chunk, passes))
                         ELSE index_entries
             fpath == Head(to_index)[1]
             r == IF Tail(pending_chunks) # <<>>
                  THEN Progress(upserted, indexed_files, to_index, Tail(pending_chunks))
                  ELSE StartFiles(upserted,
                                  [indexed_files EXCEPT ![fpath] = Head(to_index)[2]],
                                  Tail(to_index))
         IN  /\ index_entries' = r.entries
             /\ index_dirty' = (index_dirty \/ ok \/ r.entries # upserted)
             /\ flush_held' = IF flush_pc = "inserting"
                              THEN flush_held \cup {EntrySet(upserted), EntrySet(r.entries)}
                              ELSE flush_held
             /\ indexed_files' = r.indexed
             /\ to_index' = r.to_index
             /\ pending_chunks' = r.chunks
             /\ index_pc' = IF r.chunks = <<>> THEN "idle" ELSE "embedding"
    /\ UNCHANGED <<notIndexVars, workspace, ws_clock, last_scan, passes, flushVars>>

\* save_to_db up to the first INSERT: DELETE FROM rag_index inside the
\* transaction, the iteration over _entries begins
FlushStart ==
    /\ flush_pc = "idle"
    /\ flushes < MaxFlushes
    /\ index_dirty
    /\ flush_pc' = "inserting"
    /\ flush_pos' = 1
    /\ flush_rows' = {}
    /\ flush_held' = {EntrySet(index_entries)}
    /\ flushes' = flushes + 1
    /\ UNCHANGED <<notIndexVars, workspace, ws_clock, index_entries, index_dirty,
                   indexerVars, db_rows>>

\* one INSERT of the entry the list iterator is at
FlushInsert ==
    /\ flush_pc = "inserting"
    /\ flush_pos <= Len(index_entries)
    /\ flush_rows' = flush_rows \cup {index_entries[flush_pos]}
    /\ flush_pos' = flush_pos + 1
    /\ UNCHANGED <<notIndexVars, workspace, ws_clock, index_entries, index_dirty,
                   indexerVars, flush_pc, flush_held, db_rows, flushes>>

\* the iterator is exhausted: commit, self._dirty = False
FlushCommit ==
    /\ flush_pc = "inserting"
    /\ flush_pos > Len(index_entries)
    /\ db_rows' = flush_rows
    /\ index_dirty' = FALSE
    /\ flush_pc' = "committed"
    /\ UNCHANGED <<notIndexVars, workspace, ws_clock, index_entries, indexerVars,
                   flush_pos, flush_rows, flush_held, flushes>>

NextIndex ==
    \/ WriteFile
    \/ DeleteFile
    \/ IndexOnce
    \/ EmbedDone
    \/ FlushStart
    \/ FlushInsert
    \/ FlushCommit

\* ------------------------------------------------------------------ claims
\* C28: after a file has been re-indexed any number of times the index holds
\* only the entries of its latest indexing pass; there is never more than one
\* entry per (source, line range).
C28_OneEntryPerSourceAndRange ==
    index_pc = "idle" =>
        \A e1, e2 \in EntrySet(index_entries) :
            ( /\ e1.source = e2.source
              /\ e1.start_line = e2.start_line
              /\ e1.end_line = e2.end_line ) => e1 = e2

\* C29: after an indexed file has been deleted from the workspace, the next
\* indexing pass removes every entry whose source is that file.
C29_DeletedFileLeavesNoEntry ==
    (index_pc = "idle" /\ passes > 0) =>
        \A f \in IndexedPaths \ last_scan :
            \A e \in EntrySet(index_entries) : e.source # RelPath(f)

\* C30: what a flush persists is a state the index held at one instant between
\* the start of the flush and its commit.
C30_FlushPersistsOneInstant ==
    flush_pc = "committed" => db_rows \in flush_held

\* ==========================================================================
\* Part 12: the JSON-RPC requests of one MCP connection
\* ==========================================================================
\* ------------------------------------------------------------------ bounds
\* _send_request calls on the connection
MaxRequests == 2
\* responses the server writes
MaxResponses == 2

RequestIds == 1..MaxRequests

\* a JSON-RPC response line: {"id": id, "result": ...} or {"id": id, "error": ...}
Response(id, kind) == [id |-> id, kind |-> kind]
NoRead == [read |-> FALSE, id |-> 0, was_pending |-> FALSE, resolved |-> FALSE]

\* a caller of _send_request that has returned or has been unwound
Completed(state) ==
    state \in {"returned_result", "returned_none", "cancelled"}

RpcInit ==
    /\ rpc_next_id = 1
    /\ rpc_pending = {}
    /\ rpc_fut = [id \in RequestIds |-> "none"]
    /\ rpc_req = [id \in RequestIds |-> "unused"]
    /\ rpc_reason = [id \in RequestIds |-> "none"]
    /\ rpc_stdout = <<>>
    /\ rpc_responses = 0
    /\ rpc_process = "running"
    /\ rpc_reader = "running"
    /\ rpc_connected = TRUE
    /\ eof_pending = {}
    /\ last_read = NoRead

rpcCallVars == <<rpc_next_id, rpc_pending, rpc_fut, rpc_req, rpc_reason>>
rpcWireVars == <<rpc_stdout, rpc_responses, rpc_process>>

\* ----------------------------------------------------------------- actions
\* _send_request up to the await of the write: the future is created and
\* stored in _pending
SendRequest ==
    /\ rpc_next_id <= MaxRequests
    /\ rpc_process # "none"
    /\ rpc_pending' = rpc_pending \cup {rpc_next_id}
    /\ rpc_fut' = [rpc_fut EXCEPT ![rpc_next_id] = "pending"]
    /\ rpc_req' = [rpc_req EXCEPT ![rpc_next_id] = "writing"]
    /\ rpc_next_id' = rpc_next_id + 1
    /\ UNCHANGED <<notRpcVars, rpc_reason, rpcWireVars, rpc_reader, rpc_connected,
                   eof_pending, last_read>>

\* the write returns: False pops the id and returns None, True goes on to
\* asyncio.wait_for(fut, timeout)
WriteReturns ==
    /\ \E id \in RequestIds :
         /\ rpc_req[id] = "writing"
         /\ IF rpc_process = "running"
            THEN /\ rpc_req' = [rpc_req EXCEPT ![id] = "waiting"]
                 /\ UNCHANGED <<rpc_pending, rpc_reason>>
            ELSE /\ rpc_req' = [rpc_req EXCEPT ![id] = "returned_none"]
                 /\ rpc_reason' = [rpc_reason EXCEPT ![id] = "write_failure"]
                 /\ rpc_pending' = rpc_pending \ {id}
    /\ UNCHANGED <<notRpcVars, rpc_next_id, rpc_fut, rpcWireVars, rpc_reader,
                   rpc_connected, eof_pending, last_read>>

\* the server writes a response for a request it has received
ServerResponds ==
    /\ rpc_process = "running"
    /\ rpc_responses < MaxResponses
    /\ \E id \in RequestIds : \E kind \in {"result", "error"} :
         /\ rpc_req[id] \notin {"unused", "writing"}
         /\ rpc_stdout' = Append(rpc_stdout, Response(id, kind))
    /\ rpc_responses' = rpc_responses + 1
    /\ UNCHANGED <<notRpcVars, rpcCallVars, rpc_process, rpc_reader, rpc_connected,
                   eof_pending, last_read>>

\* the subprocess exits
ProcessExits ==
    /\ rpc_process = "running"
    /\ rpc_process' = "exited"
    /\ UNCHANGED <<notRpcVars, rpcCallVars, rpc_stdout, rpc_responses, rpc_reader,
                   rpc_connected, eof_pending, last_read>>

\* _read_stdout_loop reads one message: a response for a pending id pops the
\* future and, unless it is done, sets its result
ReaderReads ==
    /\ rpc_reader = "running"
    /\ rpc_stdout # <<>>
    /\ LET msg == Head(rpc_stdout)
           known == msg.id \in rpc_pending
           sets == known /\ rpc_fut[msg.id] = "pending"
       IN  /\ rpc_pending' = rpc_pending \ {msg.id}
           /\ rpc_fut' = IF sets THEN [rpc_fut EXCEPT ![msg.id] = msg.kind] ELSE rpc_fut
           /\ last_read' = [read |-> TRUE, id |-> msg.id, was_pending |-> known,
                            resolved |-> rpc_fut' # rpc_fut]
    /\ rpc_stdout' = Tail(rpc_stdout)
    /\ UNCHANGED <<notRpcVars, rpc_next_id, rpc_req, rpc_reason, rpc_responses,
                   rpc_process, rpc_reader, rpc_connected, eof_pending>>

\* _read_mcp_message returns None (EOF): the loop breaks, finally sets
\* _connected = False
ReaderEOF ==
    /\ rpc_reader = "running"
    /\ rpc_stdout = <<>>
    /\ rpc_process = "exited"
    /\ rpc_reader' = "eof"
    /\ rpc_connected' = FALSE
    /\ eof_pending' = rpc_pending
    /\ UNCHANGED <<notRpcVars, rpcCallVars, rpcWireVars, last_read>>

\* the waiter of a future that got a result resumes and returns
WaiterResumes ==
    /\ \E id \in RequestIds :
         /\ rpc_req[id] = "waiting"
         /\ rpc_fut[id] \in {"result", "error", "cancelled"}
         /\ rpc_req' = [rpc_req EXCEPT ![id] =
                           IF rpc_fut[id] = "result" THEN "returned_result"
                           ELSE IF rpc_fut[id] = "error" THEN "returned_none"
                           ELSE "cancelled"]
         /\ rpc_reason' = [rpc_reason EXCEPT ![id] =
                              IF rpc_fut[id] = "result" THEN "response"
                              ELSE IF rpc_fut[id] = "error" THEN "rpc_error"
                              ELSE "disconnect"]
    /\ UNCHANGED <<notRpcVars, rpc_next_id, rpc_pending, rpc_fut, rpcWireVars,
                   rpc_reader, rpc_connected, eof_pending, last_read>>

\* asyncio.wait_for times out: it cancels the future and raises TimeoutError,
\* which pops the id
RequestTimesOut ==
    /\ \E id \in RequestIds :
         /\ rpc_req[id] = "waiting"
         /\ rpc_fut[id] = "pending"
         /\ rpc_fut' = [rpc_fut EXCEPT ![id] = "cancelled"]
         /\ rpc_pending' = rpc_pending \ {id}
         /\ rpc_req' = [rpc_req EXCEPT ![id] = "returned_none"]
         /\ rpc_reason' = [rpc_reason EXCEPT ![id] = "timeout"]
    /\ UNCHANGED <<notRpcVars, rpc_next_id, rpcWireVars, rpc_reader, rpc_connected,
                   eof_pending, last_read>>

\* the task awaiting _send_request is cancelled: CancelledError is raised at
\* its await (wait_for cancels the future first); no except clause of
\* _send_request catches it
CallerCancelled ==
    /\ \E id \in RequestIds :
         /\ rpc_req[id] \in {"writing", "waiting"}
         /\ rpc_fut' = IF rpc_req[id] = "waiting" /\ rpc_fut[id] = "pending"
                       THEN [rpc_fut EXCEPT ![id] = "cancelled"] ELSE rpc_fut
         /\ rpc_req' = [rpc_req EXCEPT ![id] = "cancelled"]
         /\ rpc_reason' = [rpc_reason EXCEPT ![id] = "caller_cancelled"]
    /\ UNCHANGED <<notRpcVars, rpc_next_id, rpc_pending, rpcWireVars, rpc_reader,
                   rpc_connected, eof_pending, last_read>>

\* disconnect up to its first await: _connected = False, the reader task is
\* cancelled
DisconnectStarts ==
    /\ rpc_connected \/ rpc_reader = "running"
    /\ rpc_process # "none"
    /\ rpc_connected' = FALSE
    /\ rpc_reader' = IF rpc_reader = "running" THEN "cancelled" ELSE rpc_reader
    /\ UNCHANGED <<notRpcVars, rpcCallVars, rpcWireVars, eof_pending, last_read>>

\* disconnect after the subprocess has been stopped: the futures that are not
\* done are cancelled, _pending is cleared
DisconnectFinishes ==
    /\ ~rpc_connected
    /\ rpc_reader # "running"
    /\ rpc_process # "none"
    /\ rpc_process' = "none"
    /\ rpc_fut' = [id \in RequestIds |->
                     IF id \in rpc_pending /\ rpc_fut[id] = "pending"
                     THEN "cancelled" ELSE rpc_fut[id]]
    /\ rpc_pending' = {}
    /\ UNCHANGED <<notRpcVars, rpc_next_id, rpc_req, rpc_reason, rpc_stdout,
                   rpc_responses, rpc_reader, rpc_connected, eof_pending, last_read>>

NextRpc ==
    \/ SendRequest
    \/ WriteReturns
    \/ ServerResponds
    \/ ProcessExits
    \/ ReaderReads
    \/ ReaderEOF
    \/ WaiterResumes
    \/ RequestTimesOut
    \/ CallerCancelled
    \/ DisconnectStarts
    \/ DisconnectFinishes

\* ------------------------------------------------------------------ claims
\* C31: when the reader observes EOF, every request still pending on the
\* connection is failed at that point: no caller that was waiting for its
\* response is left with a pending future.
C31_EofFailsPending ==
    rpc_reader = "eof" =>
        \A id \in eof_pending : rpc_req[id] = "waiting" => rpc_fut[id] # "pending"

\* C39: once a request has completed in any way its id is no longer in the
\* pending table, and a response for an id that is not pending resolves no
\* request.
C39_CompletedNotPending ==
    /\ \A id \in RequestIds : Completed(rpc_req[id]) => id \notin rpc_pending
    /\ (last_read.read /\ ~last_read.was_pending) => ~last_read.resolved

\* ------------------------------------------------------------------ bounds
\* turns of the conversation handed to the window manager
MaxTurns == 4

\* --------------------------------------------------------- program constants
\* SUMMARY_TRIGGER_RATIO = 0.90, in percent
SummaryTriggerPercent == 90

\* max_input of the models the capability cache knows, in tokens
ContextWindows == {40, 400}
\* history budgets of the trims made, in tokens
TrimBudgets == {10, 30}
\* len(system_prompt)
SystemPromptLens == {0, 80}

\* ------------------------------------------------------------ conversations
\* what a turn adds to the conversation: a user message, an assistant answer,
\* or an assistant message with one or two tool calls and their tool messages
TurnKinds == {"user", "answer", "one_call", "two_calls"}

TurnNames == <<"t1", "t2", "t3", "t4", "t5">>
CallIds == << <<"c11", "c12">>, <<"c21", "c22">>, <<"c31", "c32">>, <<"c41", "c42">>,
              <<"c51", "c52">> >>

\* a message: content is None (length 0) when tool_calls is not empty
ChatMessage(role, text, len, tool_calls, tool_call_id) ==
    [role |-> role, content |-> Content(text, len), tool_calls |-> tool_calls,
     tool_call_id |-> tool_call_id]

ToolMessage(t, k) == ChatMessage("tool", <<TurnNames[t], "result">>, 60, {}, CallIds[t][k])

\* the messages of turn t
TurnMessages(t, kind) ==
    CASE kind = "user" -> <<ChatMessage("user", <<TurnNames[t], "question">>, 20, {}, NoId)>>
      [] kind = "answer" ->
            <<ChatMessage("assistant", <<TurnNames[t], "answer">>, 40, {}, NoId)>>
      [] kind = "one_call" ->
            <<ChatMessage("assistant", <<TurnNames[t]>>, 0, {CallIds[t][1]}, NoId),
              ToolMessage(t, 1)>>
      [] kind = "two_calls" ->
            <<ChatMessage("assistant", <<TurnNames[t]>>, 0, {CallIds[t][1], CallIds[t][2]},
                          NoId),
              ToolMessage(t, 1), ToolMessage(t, 2)>>

RECURSIVE Conversation(_)
Conversation(kinds) ==
    IF kinds = <<>> THEN <<>>
    ELSE Conversation(SubSeq(kinds, 1, Len(kinds) - 1))
         \o TurnMessages(Len(kinds), kinds[Len(kinds)])

Conversations ==
    UNION { { Conversation(kinds) : kinds \in [1..n -> TurnKinds] } : n \in 0..MaxTurns }

\* each tool message is preceded by the assistant message that made its call
Paired(messages) ==
    \A i \in 1..Len(messages) :
       messages[i].role = "tool" =>
          \E j \in 1..(i - 1) :
             /\ messages[j].role = "assistant"
             /\ messages[i].tool_call_id \in messages[j].tool_calls

\* ------------------------------------------------------- the summary's call
\* the events LLMClient.stream yields for the summary prompt, and whether it
\* raises after them
StreamEvent(type, text) == [type |-> type, text |-> text]

SummaryStreams ==
    { [events |-> e, raises |-> r] :
        e \in { <<>>,
                <<StreamEvent("content", "summary")>>,
                <<StreamEvent("content", "blank")>>,
                <<StreamEvent("error", "auth_error")>>,
                <<StreamEvent("error", "provider_error")>>,
                <<StreamEvent("content", "summary"), StreamEvent("error", "provider_error")>> },
        r \in BOOLEAN }

NotCalled == [events |-> <<>>, raises |-> FALSE, called |-> FALSE]
Called(llm) == [events |-> llm.events, raises |-> llm.raises, called |-> TRUE]

\* LLMClient.complete: the contents of the content events and the error texts
\* of the error events, joined in the order of the events
complete(stream_events) ==
    LET kept == SelectSeq(stream_events, LAMBDA ev : ev.type \in {"content", "error"})
    IN  [k \in 1..Len(kept) |-> kept[k].text]

\* str.strip on a text given as its parts: blank parts at both ends go
RECURSIVE StripParts(_)
StripParts(parts) ==
    IF parts = <<>> THEN <<>>
    ELSE IF Head(parts) = "blank" THEN StripParts(Tail(parts))
    ELSE IF parts[Len(parts)] = "blank" THEN StripParts(SubSeq(parts, 1, Len(parts) - 1))
    ELSE parts

\* Optional[str]: None, or a text given as its parts
NoSummary == [none |-> TRUE, text |-> <<>>]
SummaryText(parts) == [none |-> FALSE, text |-> parts]

\* `not summary`
Falsy(summary) == summary.none \/ summary.text = <<>>

\* _generate_summary: the stripped result of complete, None for an empty
\* result and for an exception
_generate_summary(llm) ==
    IF llm.raises THEN NoSummary
    ELSE LET result == complete(llm.events)
         IN  IF result = <<>> THEN NoSummary ELSE SummaryText(StripParts(result))

\* the synthetic system message that carries the summary
SummaryMessage(summary) ==
    ChatMessage("system", <<"summary_header">> \o summary.text, 40, {}, NoId)

\* max(MIN_RECENT_MESSAGES * 2, 4)
KeepCount == IF MIN_RECENT_MESSAGES * 2 > 4 THEN MIN_RECENT_MESSAGES * 2 ELSE 4

\* usage_ratio < SUMMARY_TRIGGER_RATIO
BelowTrigger(current_tokens, max_input) ==
    100 * current_tokens < SummaryTriggerPercent * (IF max_input > 1 THEN max_input ELSE 1)

\* summarize_context_if_needed: the list and the summary it returns, and the
\* call it made
summarize_context_if_needed(messages, system_len, max_input, llm) ==
    LET current_tokens == estimate_messages_tokens(messages) + estimate_tokens(system_len)
        unchanged == [messages |-> messages, summary |-> NoSummary, llm |-> NotCalled]
    IN  IF BelowTrigger(current_tokens, max_input) THEN unchanged
        ELSE IF Len(messages) <= KeepCount THEN unchanged
        ELSE LET summary == _generate_summary(llm)
             IN  IF Falsy(summary)
                 THEN [unchanged EXCEPT !.llm = Called(llm)]
                 ELSE [messages |-> <<SummaryMessage(summary)>> \o LastN(messages, KeepCount),
                       summary |-> summary,
                       llm |-> Called(llm)]

ContextInit ==
    /\ ctx_op = "idle"
    /\ ctx_messages = <<>>
    /\ ctx_result = <<>>
    /\ ctx_summary = NoSummary
    /\ ctx_llm = NotCalled

\* ----------------------------------------------------------------- actions
\* prepare_context trims one conversation to one history budget
TrimConversation ==
    /\ ctx_op = "idle"
    /\ \E messages \in Conversations, budget \in TrimBudgets :
         /\ ctx_messages' = messages
         /\ ctx_result' = _truncate_messages(messages, budget)
    /\ ctx_op' = "trimmed"
    /\ UNCHANGED <<ctx_summary, ctx_llm, notContextVars>>

\* summarize_context_if_needed on one conversation, with one behaviour of the
\* LLM call it may make
SummarizeContext ==
    /\ ctx_op = "idle"
    /\ \E messages \in Conversations, system_len \in SystemPromptLens,
          max_input \in ContextWindows, llm \in SummaryStreams :
         LET returned == summarize_context_if_needed(messages, system_len, max_input, llm)
         IN  /\ ctx_messages' = messages
             /\ ctx_result' = returned.messages
             /\ ctx_summary' = returned.summary
             /\ ctx_llm' = returned.llm
    /\ ctx_op' = "summarized"
    /\ UNCHANGED notContextVars

NextContext == TrimConversation \/ SummarizeContext

\* ------------------------------------------------------------------ claims
\* C34: every list returned by window trimming or by auto-summarisation keeps
\* the pairing of tool messages: each tool message in it is preceded, in the
\* same list, by the assistant message whose tool_calls include its
\* tool_call_id.
C34_ToolMessagesStayPaired ==
    ctx_op \in {"trimmed", "summarized"} => Paired(ctx_result)

\* the summary's LLM call was made and failed: an error event or an exception
SummaryCallFailed ==
    /\ ctx_llm.called
    /\ \/ ctx_llm.raises
       \/ \E k \in 1..Len(ctx_llm.events) : ctx_llm.events[k].type = "error"

ErrorTexts == {"auth_error", "provider_error"}

\* the message's content holds the text of an error
HoldsErrorText(msg) ==
    \E k \in 1..Len(msg.content.text) : msg.content.text[k] \in ErrorTexts

\* C40: when the summary's LLM call fails (provider error, authentication
\* failure or exception), summarize_context_if_needed returns the list it was
\* given and no summary, and no error text is the content of a summary message.
C40_FailedSummaryLeavesMessages ==
    (ctx_op = "summarized" /\ SummaryCallFailed) =>
        /\ ctx_result = ctx_messages
        /\ ctx_summary = NoSummary
        /\ \A i \in 1..Len(ctx_result) : ~HoldsErrorText(ctx_result[i])

\* ------------------------------------------------------------------ bounds
\* requests (tool calls and server administration) handled in one behaviour
MaxPoolSteps == 4

\* the servers: github's env template holds {github_token}, fs's holds no
\* template variable; github is a builtin server
PoolSlugs == {"github", "fs"}
TemplateUsesToken == [s \in PoolSlugs |-> s = "github"]
IsBuiltin == [s \in PoolSlugs |-> s = "github"]

\* the projects calls are made for; each is tied to a workspace directory of
\* its own, with its own github_token
PoolProjects == {"p1", "p2"}
TokenOf == [p \in PoolProjects |-> IF p = "p1" THEN "token_ws1" ELSE "token_ws2"]

\* what a server answers to tools/list; the empty list also stands for a
\* request that failed
ToolLists == {<<>>, <<"search">>, <<"search", "create_issue">>}

\* a row of the MCPServer table
NoRow == [exists |-> FALSE, enabled |-> FALSE]
Row(enabled) == [exists |-> TRUE, enabled |-> enabled]

\* MCPServerConfig, as far as the registry's tool metadata goes
NoConfig == [present |-> FALSE, enabled |-> FALSE, discovered_tools |-> <<>>]

\* MCPClientConnection: the env its subprocess was started with and the tools
\* it reported
NoPoolConn == [present |-> FALSE, connected |-> FALSE, env |-> <<>>, tools |-> <<>>]
PoolConn(env, tool_list) == [present |-> TRUE, connected |-> TRUE, env |-> env, tools |-> tool_list]

\* conn and conn.is_connected
Live(conn) == conn.present /\ conn.connected

\* MCPServerRegistry.load_from_db: _servers is cleared and rebuilt from the
\* rows; discovered_tools of every new config is the default empty list
load_from_db(rows) ==
    [s \in PoolSlugs |->
        IF rows[s].exists
        THEN [present |-> TRUE, enabled |-> rows[s].enabled, discovered_tools |-> <<>>]
        ELSE NoConfig]

\* MCPServerRegistry.update_discovered_tools
update_discovered_tools(registry, slug, tool_list) ==
    IF registry[slug].present
    THEN [registry EXCEPT ![slug].discovered_tools = tool_list]
    ELSE registry

\* resolve_env_for_server: the template with the variables of the workspace
\* row tied to the call's project
resolve_env_for_server(slug, project) ==
    IF TemplateUsesToken[slug] THEN <<TokenOf[project]>> ELSE <<"static">>

\* MCPClientManager.disconnect(slug): the connection is popped
disconnect(conns, slug) == [conns EXCEPT ![slug] = NoPoolConn]

\* MCPClientManager.get_or_connect(config, env_override) for server slug: the
\* connections and the registry after it, and whether it returned a
\* connection. A live connection of the slug is returned as it is; otherwise
\* a new one is started with env_override and, when the handshake succeeds,
\* registered, and the tools it lists are published to the registry.
get_or_connect(conns, registry, slug, env_override, ok, tool_list) ==
    IF Live(conns[slug])
    THEN [connections |-> conns, servers |-> registry, returned |-> TRUE]
    ELSE IF ok
    THEN [connections |-> [conns EXCEPT ![slug] = PoolConn(env_override, tool_list)],
          servers |-> update_discovered_tools(registry, slug, tool_list),
          returned |-> TRUE]
    ELSE [connections |-> conns, servers |-> registry, returned |-> FALSE]

NoPoolCall == [made |-> FALSE, slug |-> "", project |-> "", env |-> <<>>]

PoolInit ==
    /\ reg_rows = [s \in PoolSlugs |-> IF IsBuiltin[s] THEN Row(TRUE) ELSE NoRow]
    /\ reg_servers = load_from_db(reg_rows)
    /\ pool_connections = [s \in PoolSlugs |-> NoPoolConn]
    /\ pool_call = NoPoolCall
    /\ pool_steps = 0

PoolStep ==
    /\ pool_steps < MaxPoolSteps
    /\ pool_steps' = pool_steps + 1

\* ----------------------------------------------------------------- actions
\* _execute_mcp for a tool of server slug, called for one project: the config
\* is read, the env is resolved for the project, a connection is obtained and
\* the tool is called on it
CallMcpTool ==
    /\ PoolStep
    /\ \E slug \in PoolSlugs, project \in PoolProjects, ok \in BOOLEAN, tool_list \in ToolLists :
         /\ reg_servers[slug].present
         /\ reg_servers[slug].enabled
         /\ LET env_override == resolve_env_for_server(slug, project)
                got == get_or_connect(pool_connections, reg_servers, slug, env_override,
                                      ok, tool_list)
            IN  /\ pool_connections' = got.connections
                /\ reg_servers' = got.servers
                /\ pool_call' = IF got.returned
                                THEN [made |-> TRUE, slug |-> slug, project |-> project,
                                      env |-> got.connections[slug].env]
                                ELSE pool_call
    /\ UNCHANGED <<reg_rows, notPoolVars>>

\* create_server: the row is added and the registry refreshed
CreateServer ==
    /\ PoolStep
    /\ \E slug \in PoolSlugs, enabled \in BOOLEAN :
         /\ ~reg_rows[slug].exists
         /\ reg_rows' = [reg_rows EXCEPT ![slug] = Row(enabled)]
    /\ reg_servers' = load_from_db(reg_rows')
    /\ UNCHANGED <<pool_connections, pool_call, notPoolVars>>

\* update_server: the row is changed, the registry refreshed and the
\* connection of the updated server closed
UpdateServer ==
    /\ PoolStep
    /\ \E slug \in PoolSlugs, enabled \in BOOLEAN :
         /\ reg_rows[slug].exists
         /\ reg_rows' = [reg_rows EXCEPT ![slug] = Row(enabled)]
         /\ pool_connections' = disconnect(pool_connections, slug)
    /\ reg_servers' = load_from_db(reg_rows')
    /\ UNCHANGED <<pool_call, notPoolVars>>

\* delete_server: the connection of the server is closed, its row deleted and
\* the registry refreshed; a builtin server is not deleted
DeleteServer ==
    /\ PoolStep
    /\ \E slug \in PoolSlugs :
         /\ reg_rows[slug].exists
         /\ ~IsBuiltin[slug]
         /\ pool_connections' = disconnect(pool_connections, slug)
         /\ reg_rows' = [reg_rows EXCEPT ![slug] = NoRow]
    /\ reg_servers' = load_from_db(reg_rows')
    /\ UNCHANGED <<pool_call, notPoolVars>>

\* _read_stdout_loop of a live connection ends and clears _connected
ReaderEnds ==
    /\ PoolStep
    /\ \E slug \in PoolSlugs :
         /\ Live(pool_connections[slug])
         /\ pool_connections' = [pool_connections EXCEPT ![slug].connected = FALSE]
    /\ UNCHANGED <<reg_rows, reg_servers, pool_call, notPoolVars>>

NextPool ==
    \/ CallMcpTool
    \/ CreateServer
    \/ UpdateServer
    \/ DeleteServer
    \/ ReaderEnds

\* ------------------------------------------------------------------ claims
\* C37: whenever the client manager holds a live connection to an enabled
\* server, the discovered_tools the registry holds for that server are the
\* tools that connection reported, whatever connects, refreshes and
\* creations, updates or deletions of other servers came before.
C37_DiscoveredToolsMatchConnection ==
    \A slug \in PoolSlugs :
       ( /\ Live(pool_connections[slug])
         /\ reg_servers[slug].present
         /\ reg_servers[slug].enabled )
       => reg_servers[slug].discovered_tools = pool_connections[slug].tools

\* C38: an MCP tool call runs on a connection whose subprocess env was
\* resolved for the project of that call.
C38_CallRunsWithOwnProjectEnv ==
    pool_call.made =>
        pool_call.env = resolve_env_for_server(pool_call.slug, pool_call.project)

\* ==========================================================================
\* Specifications
\* ==========================================================================
\* the initial state of the parts other than the agent run
ComponentsInit ==
    /\ ToolsInit
    /\ AdapterInit
    /\ ManagerInit
    /\ CacheInit
    /\ BuilderInit
    /\ WindowInit
    /\ DeltasInit
    /\ NamingInit
    /\ BudgetInit
    /\ IndexInit
    /\ RpcInit
    /\ ContextInit
    /\ PoolInit

\* the agent run has not been submitted: the other parts act alone
AgentIdle == AgentInit /\ ~tools /\ ~tool_executor /\ ~enable_reflection

Init == AgentInit /\ ComponentsInit

\* one agent run
Spec == Init /\ [][Next]_vars

\* one agent run in which every stream, tool execution and wait returns: a step
\* that can be taken is taken
SpecLive == Init /\ [][Next]_vars /\ WF_vars(Next)

InitComponents == AgentIdle /\ ComponentsInit

\* one call into the tool registry or the tool executor
SpecTools == InitComponents /\ [][NextTools]_vars

\* a sequence of MCP tool calls through the execution adapter
SpecAdapter == InitComponents /\ [][NextAdapter]_vars

\* concurrent tool calls through the connection pool and a config update
SpecManager == InitComponents /\ [][NextManager]_vars

\* requests to the provider cache over time
SpecCache == InitComponents /\ [][NextCache]_vars

\* one context build
SpecBuilder == InitComponents /\ [][NextBuilder]_vars

\* one window trim
SpecWindow == InitComponents /\ [][NextWindow]_vars

\* one response rebuilt in two arrival orders
SpecDeltas == InitComponents /\ [][NextDeltas]_vars

\* one tool name converted and parsed back
SpecNaming == InitComponents /\ [][NextNaming]_vars

\* the budget manager
SpecBudget == InitComponents /\ [][NextBudget]_vars

\* the vector index, the indexer and a flush
SpecIndex == InitComponents /\ [][NextIndex]_vars

\* the requests of one connection
SpecRpc == InitComponents /\ [][NextRpc]_vars

\* one conversation trimmed or summarised
SpecContext == InitComponents /\ [][NextContext]_vars

\* the registry and the pool under calls and administration
SpecPool == InitComponents /\ [][NextPool]_vars

====
